---- MODULE Spec2Model ----
(***************************************************************************)
(* Model of the thread store (src/src/database/database.py, SQLiteDatabase) *)
(* and of the cleaner (src/src/core/email_cleaner.py, EmailCleaner: the    *)
(* thread resolver extract_thread_info, clean_text, the validator and      *)
(* process_email; src/src/run_all.py, clean_emails), of the file-based     *)
(* store (src/src/core/database.py, EmailDatabase) and of the fetcher and  *)
(* its polling loop (src/src/core/gmail_fetcher.py).                       *)
(*                                                                         *)
(* The store is modelled at the level of its SQL statements: a table is a  *)
(* function from primary key to row, a statement followed by commit() is   *)
(* one durable step, a statement that raises (IntegrityError on a          *)
(* duplicate primary key) leaves the tables as they were.  JSON columns    *)
(* (participants, references, raw_data) hold the value that json.loads     *)
(* gives back for the lists of strings / dicts stored in them.  Every      *)
(* statement is given its SQL meaning, `references` being read as the name *)
(* of a column (SQLite itself reserves the word).  The wall clock read by  *)
(* datetime.now() does not go back.                                        *)
(***************************************************************************)
EXTENDS Integers, Sequences, FiniteSets, TLC

VARIABLES
    emails,      \* table emails:           id -> row
    threads,     \* table threads:          thread_id -> row
    processed,   \* table processed_emails: email_id -> row
    calendar,    \* table calendar_events:  id -> row
    clock,       \* the wall clock read by datetime.now()
    pc,          \* per connection: position inside save_email
    call,        \* per connection: the email_data of the running save_email
    fetched,     \* per connection: the row returned by cursor.fetchone()
    msg,         \* resolver: the email_data handed to extract_thread_info
    result,      \* resolver: the dict extract_thread_info returned
    answer,      \* what the last read query of the store returned
    batch,       \* cleaner: the list of email_data dicts to process
    pos,         \* clean_emails: how many emails of the batch the loop has taken
    cleaned_emails,  \* clean_emails: the results appended so far
    mapped,      \* process_emails: index -> result of executor.map so far
    content,     \* validator: the text handed to validate_cleaned_content
    valid,       \* validator: what validate_cleaned_content returned
    txt,         \* clean_text: its local `text`, the patterns applied so far
    applied,     \* clean_text: the pattern groups applied so far, then "return"
    returned,    \* clean_text: what the calls made so far returned
    stripping,   \* _clean_subject: its local `subject`
    subject_pc,  \* _clean_subject: "call", "while" or "returned"
    roots,       \* _clean_subject: what the calls made so far returned
    cleaned_parts,   \* process_email: its local list when it returned last
    emails_file, \* EmailDatabase: what data/raw/emails.json holds
    file_log,    \* EmailDatabase: the ids save_email returned, with the emails
    connected,   \* GmailFetcher: self.connected
    mail,        \* GmailFetcher: the state of the connection self.mail
    inbox,       \* the number of messages in the Gmail inbox
    cycles,      \* run_every_5_minutes: the turns of its loop made so far
    fetch_returned,  \* what the last fetch_emails returned
    selected_on, \* the state of self.mail when the last fetch_emails selected the inbox
    emails_json  \* what the file emails.json holds

vars ==
    <<emails, threads, processed, calendar, clock, pc, call, fetched, msg, result,
      answer, batch, pos, cleaned_emails, mapped, content, valid,
      txt, applied, returned, stripping, subject_pc, roots, cleaned_parts,
      emails_file, file_log,
      connected, mail, inbox, cycles, fetch_returned, selected_on, emails_json>>
storeVars == <<emails, threads, processed, calendar>>
connVars == <<pc, call, fetched>>
resolverVars == <<msg, result>>
queryVars == <<answer>>
cleanerVars == <<batch, pos, cleaned_emails, mapped, content, valid>>
textVars == <<txt, applied, returned>>
subjectVars == <<stripping, subject_pc, roots>>
partVars == <<cleaned_parts>>
fileVars == <<emails_file, file_log>>
fetcherVars == <<connected, mail, inbox, cycles, fetch_returned, selected_on, emails_json>>

---------------------------------------------------------------------------
(* Bounds of the model *)

MaxEmails == 2      \* rows in emails
MaxClock == 2       \* largest clock reading
MaxEvents == 1      \* rows in calendar_events
MaxRefLen == 3      \* characters of the References header
MaxIrtLen == 3      \* characters of the In-Reply-To header
MaxSubjLen == 4     \* characters of the subject
MaxLimit == 2       \* largest limit handed to get_recent_threads
MaxSearchEmails == 3    \* rows in emails when the store is searched
MaxBatch == 2       \* email_data dicts in a batch
MaxTextLen == 11    \* characters of the run in a text handed to the validator

---------------------------------------------------------------------------
(* Values *)

\* SQL NULL / Python None / an absent dict key read with .get()
Null == "NULL"

Senders == {"a@x.com", "b@x.com"}
\* The (to, cc) address lists a message comes with
AddressLists == {<<{}, {}>>, <<{"c@x.com"}, {"d@x.com"}>>}
ThreadIds == {"T1", "T2"}
SuppliedIds == {"m1", "m2"}
Connections == {"c1", "c2"}

\* not thread_id  (None and "" are falsy)
Truthy(v) == v # Null /\ v # ""

\* The email_data dicts handed to save_email.  id = Null stands for a dict
\* without the key 'id'.
EmailData ==
    {[id |-> id, from |-> from, to |-> rcpt[1], cc |-> rcpt[2],
      subject |-> "Budget", body |-> "text", date |-> "2024-04-05",
      thread_id |-> thread_id, in_reply_to |-> Null, references |-> <<>>] :
        id \in SuppliedIds \cup {Null}, from \in Senders, rcpt \in AddressLists,
        thread_id \in ThreadIds \cup {Null}}

NoCall ==
    [id |-> Null, from |-> "a@x.com", to |-> {}, cc |-> {}, subject |-> "Budget",
     body |-> "text", date |-> "2024-04-05", thread_id |-> Null,
     in_reply_to |-> Null, references |-> <<>>]

NoRow == [subject |-> Null, participants |-> <<>>, last_updated |-> 0, message_count |-> 0]

\* str(datetime.now().timestamp())
TimestampId(now) == ToString(now)

Range(s) == {s[i] : i \in DOMAIN s}

---------------------------------------------------------------------------
(* SQLiteDatabase: the statements *)

\* email_data.get('id', str(datetime.now().timestamp()))
EmailId(data, now) == IF data.id = Null THEN TimestampId(now) ELSE data.id

\* INSERT INTO emails (...) VALUES (...): the row built from email_data
EmailRow(data) ==
    [sender |-> data.from,
     subject |-> data.subject,
     body |-> data.body,
     received_date |-> data.date,
     thread_id |-> data.thread_id,
     in_reply_to |-> data.in_reply_to,
     references |-> data.references,
     raw_data |-> data]

\* The INSERT raises IntegrityError when the primary key is already there.
InsertRaises(table, key) == key \in DOMAIN table

Insert(table, key, row) ==
    [k \in DOMAIN table \cup {key} |-> IF k = key THEN row ELSE table[k]]

\* _update_participants with the check `not in` dropped
UpdateParticipantsNoDedup(existing, new_participant) ==
    Append(existing, new_participant)

\* _update_participants that keeps the new participant only
UpdateParticipantsOverwrite(existing, new_participant) ==
    <<new_participant>>

\* _update_participants
UpdateParticipants(existing, new_participant) ==
    IF new_participant \notin Range(existing)
    THEN Append(existing, new_participant)
    ELSE existing

\* SELECT * FROM threads WHERE thread_id = ? ; cursor.fetchone()
FetchThread(th, thread_id) == IF thread_id \in DOMAIN th THEN th[thread_id] ELSE NoRow

FetchedSome(row) == row # NoRow

\* The UPDATE with last_updated bound to the time the message was sent
\* (an old message: time 0) instead of datetime.now()
UpdateExistingThreadMessageTime(th, row, data, now) ==
    IF data.thread_id \in DOMAIN th
    THEN [th EXCEPT ![data.thread_id] =
            [@ EXCEPT !.message_count = @ + 1,
                      !.last_updated = 0,
                      !.participants = UpdateParticipants(row.participants, data.from)]]
    ELSE th

\* UPDATE threads SET message_count = message_count + 1, last_updated = ?,
\* participants = ? WHERE thread_id = ?
\* message_count is incremented by the database on the stored value; the
\* participants written are computed from the row fetched earlier.
UpdateExistingThread(th, row, data, now) ==
    IF data.thread_id \in DOMAIN th
    THEN [th EXCEPT ![data.thread_id] =
            [@ EXCEPT !.message_count = @ + 1,
                      !.last_updated = now,
                      !.participants = UpdateParticipants(row.participants, data.from)]]
    ELSE th

\* INSERT INTO threads (...) VALUES (thread_id, subject, [from], now, 1)
NewThreadRow(data, now) ==
    [subject |-> data.subject,
     participants |-> <<data.from>>,
     last_updated |-> now,
     message_count |-> 1]

\* The write of _update_thread_info after the SELECT returned `row`:
\* UPDATE when a row was fetched, INSERT otherwise (which raises, and
\* changes nothing, when the thread row exists by now).
WriteThread(th, row, data, now) ==
    IF FetchedSome(row)
    THEN UpdateExistingThread(th, row, data, now)
    ELSE IF InsertRaises(th, data.thread_id)
         THEN th
         ELSE Insert(th, data.thread_id, NewThreadRow(data, now))

\* _update_thread_info run without interleaving: SELECT, then the write
UpdateThreadInfo(th, data, now) ==
    IF ~Truthy(data.thread_id)
    THEN th
    ELSE WriteThread(th, FetchThread(th, data.thread_id), data, now)

---------------------------------------------------------------------------
(* EmailCleaner: strings are sequences of one-character strings *)

\* None where a str is expected
NullStr == <<Null>>

Strs(chars, n) == UNION {[1..k -> chars] : k \in 0..n}

Whitespace == {" ", "\t", "\n"}
AngleBrackets == {"<", ">"}

RECURSIVE LStrip(_, _)
LStrip(s, chars) ==
    IF s = <<>> \/ Head(s) \notin chars THEN s ELSE LStrip(Tail(s), chars)

RECURSIVE RStrip(_, _)
RStrip(s, chars) ==
    IF s = <<>> \/ s[Len(s)] \notin chars THEN s ELSE RStrip(SubSeq(s, 1, Len(s) - 1), chars)

\* str.strip(chars)
Strip(s, chars) == RStrip(LStrip(s, chars), chars)

\* str.split(): the maximal runs of non-whitespace characters, in order
RECURSIVE SplitFrom(_, _, _)
SplitFrom(s, word, words) ==
    IF s = <<>>
    THEN IF word = <<>> THEN words ELSE Append(words, word)
    ELSE IF Head(s) \in Whitespace
         THEN SplitFrom(Tail(s), <<>>, IF word = <<>> THEN words ELSE Append(words, word))
         ELSE SplitFrom(Tail(s), Append(word, Head(s)), words)

Split(s) == SplitFrom(s, <<>>, <<>>)

UpperCase ==
    <<"A", "B", "C", "D", "E", "F", "G", "H", "I", "J", "K", "L", "M",
      "N", "O", "P", "Q", "R", "S", "T", "U", "V", "W", "X", "Y", "Z">>
LowerCase ==
    <<"a", "b", "c", "d", "e", "f", "g", "h", "i", "j", "k", "l", "m",
      "n", "o", "p", "q", "r", "s", "t", "u", "v", "w", "x", "y", "z">>

LowerChar(ch) ==
    IF \E i \in DOMAIN UpperCase : UpperCase[i] = ch
    THEN LowerCase[CHOOSE i \in DOMAIN UpperCase : UpperCase[i] = ch]
    ELSE ch

\* str.lower()
Lower(s) == [i \in DOMAIN s |-> LowerChar(s[i])]

\* str.startswith(prefix)
StartsWith(s, prefix) ==
    Len(s) >= Len(prefix) /\ SubSeq(s, 1, Len(prefix)) = prefix

\* prefixes = ['re:', 'fw:', 'fwd:', 'aw:', 'tr:', 'r:']
Prefixes ==
    << <<"r", "e", ":">>, <<"f", "w", ":">>, <<"f", "w", "d", ":">>,
       <<"a", "w", ":">>, <<"t", "r", ":">>, <<"r", ":">> >>

AnyPrefix(s) == \E i \in DOMAIN Prefixes : StartsWith(s, Prefixes[i])

\* for prefix in prefixes: if subject.startswith(prefix): subject = subject[len(prefix):].strip()
RECURSIVE StripPass(_, _)
StripPass(s, i) ==
    IF i > Len(Prefixes)
    THEN s
    ELSE StripPass(IF StartsWith(s, Prefixes[i])
                   THEN Strip(SubSeq(s, Len(Prefixes[i]) + 1, Len(s)), Whitespace)
                   ELSE s,
                   i + 1)

\* while any(subject.startswith(prefix) for prefix in prefixes): <the for loop>
RECURSIVE CleanLoop(_)
CleanLoop(s) == IF AnyPrefix(s) THEN CleanLoop(StripPass(s, 1)) ELSE s

\* _clean_subject with `if` in place of `while`: the prefixes are tried once
CleanSubjectOnePass(subject) ==
    Strip(StripPass(Strip(Lower(subject), Whitespace), 1), Whitespace)

\* _clean_subject
CleanSubject(subject) ==
    Strip(CleanLoop(Strip(Lower(subject), Whitespace)), Whitespace)

\* references = header.split(); [ref.strip("<>") for ref in references if ref]
ReferenceChain(header) ==
    LET words == Split(header) IN
      [i \in DOMAIN words |-> Strip(words[i], AngleBrackets)]

\* _extract_email: the address inside the string, lower-cased, or None
ExtractEmail(address) ==
    CASE address = "Ann <A@X.com>" -> "a@x.com"
      [] address = "b@x.com" -> "b@x.com"
      [] address = " C@x.com" -> "c@x.com"
      [] OTHER -> Null

\* Lines 206-227: From (added whatever _extract_email returns), then the
\* addresses found in the comma-separated To and Cc headers
Participants(m) ==
    LET from_part == IF Truthy(m.from) THEN {ExtractEmail(m.from)} ELSE {}
        to_part == {ExtractEmail(m.to_header[i]) : i \in DOMAIN m.to_header} \ {Null}
        cc_part == {ExtractEmail(m.cc_header[i]) : i \in DOMAIN m.cc_header} \ {Null}
    IN from_part \cup to_part \cup cc_part

\* str(datetime.now().timestamp()) as a string value
TimestampStr(now) == <<ToString(now)>>

\* The thread id taken from In-Reply-To before the reference chain
ThreadIdInReplyToFirst(message_id, references, in_reply_to) ==
    IF in_reply_to # <<>> \/ references # <<>>
    THEN IF in_reply_to # <<>> THEN in_reply_to ELSE references[1]
    ELSE message_id

\* The thread id taken from the reference chain alone
ThreadIdReferencesOnly(message_id, references, in_reply_to) ==
    IF in_reply_to # <<>> \/ references # <<>>
    THEN IF references # <<>> THEN references[1] ELSE NullStr
    ELSE message_id

\* Lines 229-238: is_reply = bool(in_reply_to or references);
\* thread_id = references[0] if references else in_reply_to, or message_id
ThreadIdOf(message_id, references, in_reply_to) ==
    IF in_reply_to # <<>> \/ references # <<>>
    THEN IF references # <<>> THEN references[1] ELSE in_reply_to
    ELSE message_id

\* is_reply computed from In-Reply-To alone
IsReplyInReplyToOnly(in_reply_to, references) == in_reply_to # <<>>

\* Line 231: is_reply = bool(in_reply_to or references)
IsReply(in_reply_to, references) == in_reply_to # <<>> \/ references # <<>>

\* What makes the try block raise: message_from_string on a body that is
\* neither str nor None, subject.lower() on a None subject
Raises(m) == ~m.body_is_str \/ m.subject = NullStr

\* The except branch keeping the Message-ID the body carries
DegradedThreadInfoHeaderId(m, now) ==
    [message_id |-> IF Strip(m.message_id_header, AngleBrackets) = <<>>
                    THEN TimestampStr(now)
                    ELSE Strip(m.message_id_header, AngleBrackets),
     thread_id |-> NullStr,
     in_reply_to |-> NullStr,
     references |-> <<>>,
     is_reply |-> FALSE,
     subject_root |-> m.subject,
     participants |-> {}]

\* Lines 250-260: the dict returned by the except branch
DegradedThreadInfo(m, now) ==
    [message_id |-> TimestampStr(now),
     thread_id |-> NullStr,
     in_reply_to |-> NullStr,
     references |-> <<>>,
     is_reply |-> FALSE,
     subject_root |-> m.subject,
     participants |-> {}]

\* Lines 189-248: the dict returned by the try block
ResolvedThreadInfo(m, now) ==
    LET stripped_id == Strip(m.message_id_header, AngleBrackets)
        message_id == IF stripped_id = <<>> THEN TimestampStr(now) ELSE stripped_id
        references == ReferenceChain(m.references_header)
        in_reply_to == Strip(m.in_reply_to_header, AngleBrackets)
    IN [message_id |-> message_id,
        thread_id |-> ThreadIdOf(message_id, references, in_reply_to),
        in_reply_to |-> in_reply_to,
        references |-> references,
        is_reply |-> IsReply(in_reply_to, references),
        subject_root |-> CleanSubject(m.subject),
        participants |-> Participants(m)]

\* extract_thread_info
ExtractThreadInfo(m, now) ==
    IF Raises(m) THEN DegradedThreadInfo(m, now) ELSE ResolvedThreadInfo(m, now)

---------------------------------------------------------------------------
(* Initial states *)

\* __init__ of EmailDatabase has written [] to the emails file
EmptyFile == [readable |-> TRUE, data |-> <<>>]

\* GmailFetcher.__init__; the loop has not fetched yet, emails.json is not written
InitFetcher ==
    /\ connected = FALSE
    /\ mail = "None"
    /\ inbox = 0
    /\ cycles = 0
    /\ fetch_returned = <<>>
    /\ selected_on = "None"
    /\ emails_json = EmptyFile

InitFile ==
    /\ emails_file = EmptyFile
    /\ file_log = <<>>

InitStore ==
    /\ emails = <<>>
    /\ threads = <<>>
    /\ processed = <<>>
    /\ calendar = <<>>
    /\ clock = 0

InitConnections ==
    /\ pc = [c \in Connections |-> "idle"]
    /\ call = [c \in Connections |-> NoCall]
    /\ fetched = [c \in Connections |-> NoRow]

\* An email_data whose body carries no header and whose subject is ""
NoMessage ==
    [message_id_header |-> <<>>, references_header |-> <<>>,
     in_reply_to_header |-> <<>>, subject |-> <<>>, body_is_str |-> TRUE,
     from |-> Null, to_header |-> <<>>, cc_header |-> <<>>, payload |-> <<>>,
     parts |-> <<>>]

\* extract_thread_info has not returned yet (a returned message_id is never empty)
NoResult ==
    [message_id |-> <<>>, thread_id |-> <<>>, in_reply_to |-> <<>>,
     references |-> <<>>, is_reply |-> FALSE, subject_root |-> <<>>,
     participants |-> {}]

InitResolverIdle ==
    /\ msg = NoMessage
    /\ result = NoResult

\* No query has been run
NoAnswer == [op |-> "none"]

InitQueryIdle == answer = NoAnswer

\* validate_cleaned_content has not returned yet
NotValidated == <<>>

InitBatchIdle ==
    /\ batch = <<>>
    /\ pos = 0
    /\ cleaned_emails = <<>>
    /\ mapped = <<>>
    /\ cleaned_parts = <<>>

InitValidatorIdle ==
    /\ content = <<>>
    /\ valid = NotValidated

InitCleanerIdle == InitBatchIdle /\ InitValidatorIdle

InitTextIdle ==
    /\ txt = <<>>
    /\ applied = <<>>
    /\ returned = <<>>

InitSubjectIdle ==
    /\ stripping = <<>>
    /\ subject_pc = "call"
    /\ roots = <<>>

Init ==
    /\ InitStore /\ InitConnections /\ InitResolverIdle /\ InitQueryIdle
    /\ InitCleanerIdle /\ InitTextIdle /\ InitSubjectIdle /\ InitFile /\ InitFetcher

---------------------------------------------------------------------------
(* SQLiteDatabase: the operations, each run from call to return *)

KnownIds == SuppliedIds \cup DOMAIN emails

\* save_email(email_data) on a store that holds fewer than max messages;
\* dt is the time that passes between the call of datetime.now() for the id
\* and the one for last_updated.
SaveEmailUpTo(data, dt, max) ==
    /\ Cardinality(DOMAIN emails) < max
    /\ clock + dt <= MaxClock
    /\ LET email_id == EmailId(data, clock) IN
         IF InsertRaises(emails, email_id)
         THEN UNCHANGED <<emails, threads, clock>>
         ELSE /\ emails' = Insert(emails, email_id, EmailRow(data))
              /\ threads' = UpdateThreadInfo(threads, data, clock + dt)
              /\ clock' = clock + dt
    /\ UNCHANGED <<processed, calendar, connVars, resolverVars, queryVars, cleanerVars, textVars, subjectVars, partVars, fileVars, fetcherVars>>

SaveEmail(data, dt) == SaveEmailUpTo(data, dt, MaxEmails)

\* The UPDATE of link_email_thread with the original's id bound to thread_id
LinkedRowOriginalId(row, original_id, thread_id) ==
    [row EXCEPT !.thread_id = original_id,
                !.in_reply_to = original_id,
                !.references = <<original_id>>]

\* The UPDATE without the assignment of references
LinkedRowKeepsChain(row, original_id, thread_id) ==
    [row EXCEPT !.thread_id = thread_id,
                !.in_reply_to = original_id]

\* UPDATE emails SET thread_id = ?, in_reply_to = ?, references = ? WHERE id = ?
LinkedRow(row, original_id, thread_id) ==
    [row EXCEPT !.thread_id = thread_id,
                !.in_reply_to = original_id,
                !.references = <<original_id>>]

\* link_email_thread(reply_id, original_id)
LinkEmailThread(reply_id, original_id) ==
    /\ IF /\ original_id \in DOMAIN emails
          /\ Truthy(emails[original_id].thread_id)
          /\ reply_id \in DOMAIN emails
       THEN emails' = [emails EXCEPT ![reply_id] =
                          LinkedRow(@, original_id, emails[original_id].thread_id)]
       ELSE UNCHANGED emails
    /\ UNCHANGED <<threads, processed, calendar, clock, connVars, resolverVars, queryVars, cleanerVars, textVars, subjectVars, partVars, fileVars, fetcherVars>>

\* save_processed_email(email_id, processed_data): INSERT OR REPLACE
ProcessedData == [summary : {"s1"}, intent : {"Meeting"}, ai_reply : {"ok"}]

SaveProcessedEmail(email_id, pdata) ==
    /\ processed' = Insert(processed, email_id,
                           [summary |-> pdata.summary,
                            intent |-> pdata.intent,
                            ai_reply |-> pdata.ai_reply,
                            processed_date |-> clock])
    /\ UNCHANGED <<emails, threads, calendar, clock, connVars, resolverVars, queryVars, cleanerVars, textVars, subjectVars, partVars, fileVars, fetcherVars>>

\* save_calendar_event(email_id, event_data)
EventData == [title : {"Review"}]

SaveCalendarEventUpTo(email_id, edata, max) ==
    /\ Cardinality(DOMAIN calendar) < max
    /\ IF InsertRaises(calendar, TimestampId(clock))
       THEN UNCHANGED calendar
       ELSE calendar' = Insert(calendar, TimestampId(clock),
                               [email_id |-> email_id, event_title |-> edata.title])
    /\ UNCHANGED <<emails, threads, processed, clock, connVars, resolverVars, queryVars, cleanerVars, textVars, subjectVars, partVars, fileVars, fetcherVars>>

SaveCalendarEvent(email_id, edata) == SaveCalendarEventUpTo(email_id, edata, MaxEvents)

\* Time passes between two operations.
Tick ==
    /\ clock < MaxClock
    /\ clock' = clock + 1
    /\ UNCHANGED <<storeVars, connVars, resolverVars, queryVars, cleanerVars, textVars, subjectVars, partVars, fileVars, fetcherVars>>

\* The messages the annotation services write rows for
AnnotatedIds == {"m1"}

\* email_data dicts that carry their own id and name other recipients
SuppliedEmailData == {data \in EmailData : data.id # Null /\ data.to # {}}

SaveEmailCall == \E data \in EmailData, dt \in 0..1 : SaveEmail(data, dt)
SaveSuppliedEmailCall == \E data \in SuppliedEmailData : SaveEmail(data, 0)
LinkEmailThreadCall == \E r \in KnownIds, o \in KnownIds : LinkEmailThread(r, o)
SaveProcessedEmailCall ==
    \E id \in AnnotatedIds, pdata \in ProcessedData : SaveProcessedEmail(id, pdata)
SaveCalendarEventCall ==
    \E id \in AnnotatedIds, edata \in EventData : SaveCalendarEvent(id, edata)

\* Every store operation, one at a time
Next ==
    \/ SaveSuppliedEmailCall
    \/ LinkEmailThreadCall
    \/ SaveProcessedEmailCall
    \/ SaveCalendarEventCall
    \/ Tick

Spec == Init /\ [][Next]_vars

\* save_email alone, one call at a time
NextSave ==
    \/ SaveEmailCall
    \/ Tick

SpecSave == Init /\ [][NextSave]_vars

---------------------------------------------------------------------------
(* save_email on several connections, statement by statement *)

\* The email_data dicts of the concurrent callers
ConcurrentEmailData == {data \in EmailData : data.to = {}}

\* Lines 147-167: the id, INSERT INTO emails, commit().  When the INSERT
\* raises the call ends there.  _update_thread_info returns at once for a
\* falsy thread_id.
BeginSaveEmail(c, data) ==
    /\ pc[c] = "idle"
    /\ Cardinality(DOMAIN emails) < MaxEmails
    /\ LET email_id == EmailId(data, clock) IN
         IF InsertRaises(emails, email_id)
         THEN UNCHANGED <<emails, pc, call>>
         ELSE /\ emails' = Insert(emails, email_id, EmailRow(data))
              /\ IF Truthy(data.thread_id)
                 THEN /\ pc' = [pc EXCEPT ![c] = "select"]
                      /\ call' = [call EXCEPT ![c] = data]
                 ELSE UNCHANGED <<pc, call>>
    /\ UNCHANGED <<threads, processed, calendar, clock, fetched, resolverVars, queryVars, cleanerVars, textVars, subjectVars, partVars, fileVars, fetcherVars>>

\* Lines 182-183: SELECT * FROM threads WHERE thread_id = ?; fetchone()
SelectThread(c) ==
    /\ pc[c] = "select"
    /\ fetched' = [fetched EXCEPT ![c] = FetchThread(threads, call[c].thread_id)]
    /\ pc' = [pc EXCEPT ![c] = "write"]
    /\ UNCHANGED <<storeVars, clock, call, resolverVars, queryVars, cleanerVars, textVars, subjectVars, partVars, fileVars, fetcherVars>>

\* Lines 185-213 and 171: the UPDATE or the INSERT INTO threads, commit()
WriteThreadStep(c) ==
    /\ pc[c] = "write"
    /\ threads' = WriteThread(threads, fetched[c], call[c], clock)
    /\ pc' = [pc EXCEPT ![c] = "idle"]
    /\ call' = [call EXCEPT ![c] = NoCall]
    /\ fetched' = [fetched EXCEPT ![c] = NoRow]
    /\ UNCHANGED <<emails, processed, calendar, clock, resolverVars, queryVars, cleanerVars, textVars, subjectVars, partVars, fileVars, fetcherVars>>

\* The call ends between its two commits (the process is stopped, or a
\* statement raises sqlite3.OperationalError): get_connection closes the
\* connection, what was committed stays.
Interrupt(c) ==
    /\ pc[c] \in {"select", "write"}
    /\ pc' = [pc EXCEPT ![c] = "idle"]
    /\ call' = [call EXCEPT ![c] = NoCall]
    /\ fetched' = [fetched EXCEPT ![c] = NoRow]
    /\ UNCHANGED <<storeVars, clock, resolverVars, queryVars, cleanerVars, textVars, subjectVars, partVars, fileVars, fetcherVars>>

BeginSaveEmailStep == \E c \in Connections, data \in ConcurrentEmailData : BeginSaveEmail(c, data)
SelectThreadStep == \E c \in Connections : SelectThread(c)
WriteThreadCommit == \E c \in Connections : WriteThreadStep(c)
InterruptStep == \E c \in Connections : Interrupt(c)

\* Concurrent callers, every call runs to its end
NextConcurrent ==
    \/ BeginSaveEmailStep
    \/ SelectThreadStep
    \/ WriteThreadCommit
    \/ Tick

SpecConcurrent == Init /\ [][NextConcurrent]_vars

\* Calls that may end between their steps
NextInterrupted ==
    \/ BeginSaveEmailStep
    \/ SelectThreadStep
    \/ WriteThreadCommit
    \/ InterruptStep
    \/ Tick

SpecInterrupted == Init /\ [][NextInterrupted]_vars

---------------------------------------------------------------------------
(* extract_thread_info applied to one email_data *)

HeaderChars == {"<", ">", "a", " "}
InReplyToChars == {"<", ">", "b"}
SubjectChars == {"R", "r", "e", ":", " ", "x"}

\* A header value as email_message.get returns it: the parser has removed
\* the whitespace that follows the colon.
IsHeaderValue(s) == s = <<>> \/ s[1] \notin Whitespace

ReferencesValues == {s \in Strs(HeaderChars, MaxRefLen) : IsHeaderValue(s)}
InReplyToValues == Strs(InReplyToChars, MaxIrtLen)
MessageIdValues == {<<>>, <<"<", ">">>, <<"<", "m", ">">>}

\* "Re: Budget Review"
ReBudgetReview ==
    <<"R", "e", ":", " ", "B", "u", "d", "g", "e", "t", " ",
      "R", "e", "v", "i", "e", "w">>

\* "budget review"
BudgetReview ==
    <<"b", "u", "d", "g", "e", "t", " ", "r", "e", "v", "i", "e", "w">>

SubjectValues == Strs(SubjectChars, MaxSubjLen) \cup {NullStr, ReBudgetReview}

\* subject "Re: Budget Review", In-Reply-To: <abc123>, no References
ExampleMessage ==
    [NoMessage EXCEPT !.subject = ReBudgetReview,
                      !.in_reply_to_header = <<"<", "a", "b", "c", "1", "2", "3", ">">>]

HeaderMessages ==
    {[NoMessage EXCEPT !.message_id_header = mid, !.references_header = refs,
                       !.in_reply_to_header = irt, !.subject = subj] :
        mid \in MessageIdValues, refs \in ReferencesValues,
        irt \in InReplyToValues, subj \in {<<>>, NullStr}}

SubjectMessages ==
    {[NoMessage EXCEPT !.subject = subj, !.in_reply_to_header = irt] :
        subj \in SubjectValues, irt \in {<<>>, <<"<", "b", ">">>}}

\* A body that is neither str nor None has no headers to read
UnparsableMessages ==
    {[NoMessage EXCEPT !.subject = subj, !.body_is_str = FALSE] :
        subj \in {<<>>, NullStr, ReBudgetReview}}

AddressMessages ==
    {[NoMessage EXCEPT !.from = from, !.to_header = to, !.cc_header = cc] :
        from \in {Null, "Ann <A@X.com>", "nobody"},
        to \in {<<>>, <<"b@x.com", "nobody">>},
        cc \in {<<>>, <<" C@x.com">>}}

MessageInputs ==
    HeaderMessages \cup SubjectMessages \cup UnparsableMessages
        \cup AddressMessages \cup {ExampleMessage}

InitResolve ==
    /\ InitStore
    /\ InitConnections
    /\ InitFile
    /\ InitFetcher
    /\ msg \in MessageInputs
    /\ result = NoResult
    /\ InitQueryIdle
    /\ InitTextIdle
    /\ InitSubjectIdle
    /\ InitCleanerIdle

Resolved == result # NoResult

\* thread_info = self.extract_thread_info(email_data)
Resolve ==
    /\ ~Resolved
    /\ result' = ExtractThreadInfo(msg, clock)
    /\ UNCHANGED <<storeVars, clock, connVars, msg, queryVars, cleanerVars, textVars, subjectVars, partVars, fileVars, fetcherVars>>

NextResolve == Resolve

SpecResolve == InitResolve /\ [][NextResolve]_vars

---------------------------------------------------------------------------
(* _clean_subject, one turn of its loop at a time *)

\* The subject handed to the call that is running or is made next
SubjectArgument == IF roots = <<>> THEN msg.subject ELSE roots[1]

\* Line 265: subject = subject.lower().strip()
LowerAndStrip ==
    /\ subject_pc = "call" \/ (subject_pc = "returned" /\ Len(roots) = 1)
    /\ stripping' = Strip(Lower(SubjectArgument), Whitespace)
    /\ subject_pc' = "while"
    /\ UNCHANGED <<storeVars, clock, connVars, resolverVars, queryVars, cleanerVars,
                   textVars, roots, partVars, fileVars, fetcherVars>>

\* `for` without the strip of line 270: the prefix is cut, the rest kept as it is
RECURSIVE CutPass(_, _)
CutPass(s, i) ==
    IF i > Len(Prefixes)
    THEN s
    ELSE CutPass(IF StartsWith(s, Prefixes[i])
                 THEN SubSeq(s, Len(Prefixes[i]) + 1, Len(s))
                 ELSE s,
                 i + 1)

ForPrefixesNoStrip(s) == CutPass(s, 1)

\* Lines 268-270: the body of the while loop, every prefix tried in turn
ForPrefixes(s) == StripPass(s, 1)

\* Lines 267-270: one turn of `while any(subject.startswith(prefix) ...)`
WhileTurn ==
    /\ subject_pc = "while"
    /\ AnyPrefix(stripping)
    /\ stripping' = ForPrefixes(stripping)
    /\ UNCHANGED <<storeVars, clock, connVars, resolverVars, queryVars, cleanerVars,
                   textVars, subject_pc, roots, partVars, fileVars, fetcherVars>>

\* Lines 267 and 272: no prefix is left, return subject.strip()
ReturnSubject ==
    /\ subject_pc = "while"
    /\ ~AnyPrefix(stripping)
    /\ roots' = Append(roots, Strip(stripping, Whitespace))
    /\ subject_pc' = "returned"
    /\ UNCHANGED <<storeVars, clock, connVars, resolverVars, queryVars, cleanerVars,
                   textVars, stripping, partVars, fileVars, fetcherVars>>

ReFwdREx == <<"R", "e", ":", " ", "F", "w", "d", ":", " ", "R", "E", ":", " ", "x">>

StackedSubjects ==
    { ReFwdREx,
      <<"f", "w", ":", "a", "w", ":", "t", "r", ":", "r", ":", "x">>,
      <<" ", "T", "R", ":", " ", "F", "W", ":", "\t", "A", "w", ":", " ", "r", "e">>,
      <<"R", ":", "e", ":", " ", "f", "w", "d", " ", ":", "x">> }

\* The subjects that are a str
SubjectInputs == (SubjectValues \ {NullStr}) \cup StackedSubjects

InitSubject ==
    /\ InitStore
    /\ InitConnections
    /\ InitFile
    /\ InitFetcher
    /\ msg \in {[NoMessage EXCEPT !.subject = s] : s \in SubjectInputs}
    /\ result = NoResult
    /\ InitQueryIdle
    /\ InitCleanerIdle
    /\ InitTextIdle
    /\ InitSubjectIdle

NextSubject ==
    \/ LowerAndStrip
    \/ WhileTurn
    \/ ReturnSubject

SpecSubject == InitSubject /\ [][NextSubject]_vars

\* A call that has begun goes on: the loop is run by one thread that nothing stops
SpecSubjectLive == SpecSubject /\ WF_vars(NextSubject)

---------------------------------------------------------------------------
(* SQLiteDatabase: the read queries *)
(* A query reads the tables and writes nothing, so the specifications     *)
(* below run the writes first and the queries after them: every state of  *)
(* the store is queried.  Rows that ORDER BY leaves in no particular      *)
(* order may come back in any order.                                       *)

\* received_date values in the order SQLite compares them (ISO-8601 text)
Dates == <<"2024-04-05", "2024-04-06", "2024-04-07">>

DateRank(d) == CHOOSE i \in DOMAIN Dates : Dates[i] = d

Min(a, b) == IF a <= b THEN a ELSE b

\* emails e WHERE e.thread_id = ?
ThreadEmails(t) == {id \in DOMAIN emails : emails[id].thread_id = t}

\* MIN(e.received_date) over the rows ids (NULL over no row)
FirstDate(ids) ==
    IF ids = {}
    THEN Null
    ELSE LET ds == {emails[id].received_date : id \in ids}
         IN CHOOSE d \in ds : \A e \in ds : DateRank(d) <= DateRank(e)

\* MAX(e.received_date) over the rows ids (NULL over no row)
LastDate(ids) ==
    IF ids = {}
    THEN Null
    ELSE LET ds == {emails[id].received_date : id \in ids}
         IN CHOOSE d \in ds : \A e \in ds : DateRank(e) <= DateRank(d)

\* The columns of processed_emails in a LEFT JOIN ... ON e.id = p.email_id
NoAnnotation == [summary |-> Null, intent |-> Null, ai_reply |-> Null, processed_date |-> 0]

AnnotationOf(id) == IF id \in DOMAIN processed THEN processed[id] ELSE NoAnnotation

\* The first query with threads LEFT JOINed: a row for every threads row
SummaryFoundThreadRow(t) == t \in DOMAIN threads

\* Lines 351-365: threads t JOIN emails e ON t.thread_id = e.thread_id
\* WHERE t.thread_id = ? GROUP BY t.thread_id returned a row
SummaryFound(t) == t \in DOMAIN threads /\ ThreadEmails(t) # {}

\* Lines 368-377: ORDER BY e.received_date DESC LIMIT 1; fetchone()
LatestChoices(t) ==
    IF ThreadEmails(t) = {}
    THEN {Null}
    ELSE {id \in ThreadEmails(t) :
            emails[id].received_date = LastDate(ThreadEmails(t))}

\* "latest_email": {...} if latest else None
NoLatest == [subject |-> Null, sender |-> Null, summary |-> Null, intent |-> Null]

LatestEmail(latest) ==
    IF latest = Null
    THEN NoLatest
    ELSE [subject |-> emails[latest].subject,
          sender |-> emails[latest].sender,
          summary |-> AnnotationOf(latest).summary,
          intent |-> AnnotationOf(latest).intent]

\* Lines 379-392: the dict returned; participants is the split of
\* GROUP_CONCAT(DISTINCT e.sender), a list in no particular order
ThreadSummary(t, latest) ==
    [thread_id |-> t,
     subject |-> threads[t].subject,
     participants |-> {emails[id].sender : id \in ThreadEmails(t)},
     email_count |-> Cardinality(ThreadEmails(t)),
     start_date |-> FirstDate(ThreadEmails(t)),
     last_activity |-> LastDate(ThreadEmails(t)),
     latest_email |-> LatestEmail(latest)]

\* return None
NoSummary == [thread_id |-> Null]

\* What get_thread_summary(t) may return
ThreadSummaries(t) ==
    IF SummaryFound(t)
    THEN {ThreadSummary(t, latest) : latest \in LatestChoices(t)}
    ELSE {NoSummary}

\* get_thread_summary(thread_id)
GetThreadSummary(t) ==
    /\ \E v \in ThreadSummaries(t) :
          answer' = [op |-> "get_thread_summary", arg |-> t, value |-> v]
    /\ UNCHANGED <<storeVars, clock, connVars, resolverVars, cleanerVars, textVars, subjectVars, partVars, fileVars, fetcherVars>>

\* The one-to-one listings of the elements of S
Orderings(S) ==
    {o \in [1..Cardinality(S) -> S] : \A i, j \in 1..Cardinality(S) : o[i] = o[j] => i = j}

\* for row in cursor.fetchall(): thread_summary = self.get_thread_summary(...);
\* if thread_summary: threads.append(thread_summary)
SummaryLists(order) ==
    {SelectSeq(s, LAMBDA v : v # NoSummary) :
        s \in {f \in [DOMAIN order -> UNION {ThreadSummaries(order[i]) : i \in DOMAIN order}] :
                 \A i \in DOMAIN order : f[i] \in ThreadSummaries(order[i])}}

\* MAX(e.received_date) of the group of thread t
LastActivity(t) == DateRank(LastDate(ThreadEmails(t)))

\* ORDER BY MAX(e.received_date) ASC
LessRecentFirst(a, b) == LastActivity(a) <= LastActivity(b)

\* ORDER BY MAX(e.received_date) DESC: a may come before b
MoreRecentFirst(a, b) == LastActivity(a) >= LastActivity(b)

\* Lines 427-434: the thread_id column of threads t JOIN emails e
\* GROUP BY t.thread_id ORDER BY MAX(e.received_date) DESC
RecentOrders ==
    {o \in Orderings({t \in DOMAIN threads : ThreadEmails(t) # {}}) :
        \A i, j \in DOMAIN o : i < j => MoreRecentFirst(o[i], o[j])}

\* LIMIT ?
Limit(rows, limit) == SubSeq(rows, 1, Min(limit, Len(rows)))

\* get_recent_threads(limit)
GetRecentThreads(limit) ==
    /\ \E o \in RecentOrders :
          \E v \in SummaryLists(Limit(o, limit)) :
              answer' = [op |-> "get_recent_threads", arg |-> limit, value |-> v]
    /\ UNCHANGED <<storeVars, clock, connVars, resolverVars, cleanerVars, textVars, subjectVars, partVars, fileVars, fetcherVars>>

\* calendar_events c with c.email_id = e.id
CalendarOf(id) == {k \in DOMAIN calendar : calendar[k].email_id = id}

\* The history query with processed_emails INNER JOINed
HistoryEmailsAnnotated(t) == ThreadEmails(t) \cap DOMAIN processed

\* emails e ... WHERE e.thread_id = ?
HistoryEmails(t) == ThreadEmails(t)

\* Lines 290-300: the rows of emails e LEFT JOIN processed_emails p
\* LEFT JOIN calendar_events c: one row per calendar event of the message,
\* one row with NULL event columns for a message without event
HistoryRows(t) ==
    UNION {{<<id, ev>> : ev \in IF CalendarOf(id) = {} THEN {Null} ELSE CalendarOf(id)} :
             id \in HistoryEmails(t)}

\* ORDER BY e.received_date ASC
HistoryOrders(t) ==
    {o \in Orderings(HistoryRows(t)) :
        \A i, j \in DOMAIN o :
            i < j => DateRank(emails[o[i][1]].received_date)
                       <= DateRank(emails[o[j][1]].received_date)}

\* No 'meeting_details' key
NoMeeting == [title |-> Null]

\* Lines 304-323: dict(row) with the JSON columns parsed, the event columns
\* folded into meeting_details
HistoryEntry(row) ==
    LET id == row[1]
        ev == row[2]
    IN [id |-> id,
        sender |-> emails[id].sender,
        subject |-> emails[id].subject,
        body |-> emails[id].body,
        received_date |-> emails[id].received_date,
        thread_id |-> emails[id].thread_id,
        in_reply_to |-> emails[id].in_reply_to,
        references |-> emails[id].references,
        raw_data |-> emails[id].raw_data,
        summary |-> AnnotationOf(id).summary,
        intent |-> AnnotationOf(id).intent,
        ai_reply |-> AnnotationOf(id).ai_reply,
        meeting_details |-> IF ev # Null /\ Truthy(calendar[ev].event_title)
                            THEN [title |-> calendar[ev].event_title]
                            ELSE NoMeeting]

\* get_thread_history(thread_id)
GetThreadHistory(t) ==
    /\ \E o \in HistoryOrders(t), info \in ThreadSummaries(t) :
          answer' = [op |-> "get_thread_history", arg |-> t,
                     value |-> [thread_info |-> info,
                                emails |-> [i \in DOMAIN o |-> HistoryEntry(o[i])]]]
    /\ UNCHANGED <<storeVars, clock, connVars, resolverVars, cleanerVars, textVars, subjectVars, partVars, fileVars, fetcherVars>>

\* The characters of the texts stored in the subject, body and summary
\* columns and of the search terms
Chars(text) ==
    CASE text = "Invoice" -> <<"I", "n", "v", "o", "i", "c", "e">>
      [] text = "Budget" -> <<"B", "u", "d", "g", "e", "t">>
      [] text = "text" -> <<"t", "e", "x", "t">>
      [] text = "s1" -> <<"s", "1">>
      [] text = "invoice due" -> <<"i", "n", "v", "o", "i", "c", "e", " ", "d", "u", "e">>
      [] text = "invoice" -> <<"i", "n", "v", "o", "i", "c", "e">>
      [] text = "INV" -> <<"I", "N", "V">>

\* text LIKE pattern: % matches any run of characters, _ any one character,
\* letters match whatever their case
RECURSIVE LikeMatch(_, _)
LikeMatch(text, pattern) ==
    IF pattern = <<>>
    THEN text = <<>>
    ELSE IF Head(pattern) = "%"
         THEN \/ LikeMatch(text, Tail(pattern))
              \/ text # <<>> /\ LikeMatch(Tail(text), pattern)
         ELSE /\ text # <<>>
              /\ Head(pattern) = "_" \/ LowerChar(Head(text)) = LowerChar(Head(pattern))
              /\ LikeMatch(Tail(text), Tail(pattern))

\* search_term = f"%{query}%" ; column LIKE ?  (NULL LIKE ? is not true)
Like(column, query) ==
    /\ column # Null
    /\ LikeMatch(Chars(column), <<"%">> \o Chars(query) \o <<"%">>)

\* Lines 404-409: the rows of threads t JOIN emails e LEFT JOIN
\* processed_emails p that pass the WHERE clause
SearchHits(query) ==
    {id \in DOMAIN emails :
        /\ emails[id].thread_id \in DOMAIN threads
        /\ \/ Like(emails[id].subject, query)
           \/ Like(emails[id].body, query)
           \/ Like(AnnotationOf(id).summary, query)}

\* MAX(e.received_date) as last_activity: over the rows of the group, which
\* are the rows that passed the WHERE clause
SearchActivity(t, query) == DateRank(LastDate(SearchHits(query) \cap ThreadEmails(t)))

\* GROUP BY t.thread_id ORDER BY last_activity DESC
SearchOrders(query) ==
    {o \in Orderings({emails[id].thread_id : id \in SearchHits(query)}) :
        \A i, j \in DOMAIN o :
            i < j => SearchActivity(o[i], query) >= SearchActivity(o[j], query)}

\* search_threads(query)
SearchThreads(query) ==
    /\ \E o \in SearchOrders(query) :
          \E v \in SummaryLists(o) :
              answer' = [op |-> "search_threads", arg |-> query, value |-> v]
    /\ UNCHANGED <<storeVars, clock, connVars, resolverVars, cleanerVars, textVars, subjectVars, partVars, fileVars, fetcherVars>>

\* No query has returned yet: the store is still being written
Writing == answer = NoAnswer

QueryIds == {"m1", "m2", "m3"}
SenderOf(id) == IF id = "m2" THEN "b@x.com" ELSE "a@x.com"

\* email_data dicts with their own id, a date and, or not, a thread_id
DatedEmailData ==
    {[NoCall EXCEPT !.id = id, !.from = SenderOf(id), !.thread_id = t, !.date = d] :
        id \in QueryIds, t \in ThreadIds \cup {"T3", Null}, d \in Range(Dates)}

\* The same, all of one date and of the threads T1 and T2
LinkableEmailData ==
    {data \in DatedEmailData : data.date = Dates[1] /\ data.thread_id # "T3"}

\* The thread ids asked for: those of the messages and one never stored
QueryThreadIds == ThreadIds \cup {"T9"}

SaveLinkableEmailCall == \E data \in LinkableEmailData : SaveEmail(data, 0)
SaveDatedEmailCall == \E data \in DatedEmailData : SaveEmail(data, 0)
GetThreadSummaryCall == \E t \in QueryThreadIds : GetThreadSummary(t)
GetRecentThreadsCall == \E limit \in 0..MaxLimit : GetRecentThreads(limit)

\* save_email and link_email_thread calls, then get_thread_summary
NextThreads ==
    \/ Writing /\ SaveLinkableEmailCall
    \/ Writing /\ LinkEmailThreadCall
    \/ GetThreadSummaryCall

SpecThreads == Init /\ [][NextThreads]_vars

\* email_data dicts m1 and m2 of the threads T1 and T2 with one of two dates
HistoryEmailData ==
    {data \in DatedEmailData :
        /\ data.id \in SuppliedIds
        /\ data.thread_id \in ThreadIds
        /\ data.date \in {Dates[1], Dates[2]}}

SaveHistoryEmailCall == \E data \in HistoryEmailData : SaveEmail(data, 0)
GetThreadHistoryCall == \E t \in QueryThreadIds : GetThreadHistory(t)

\* save_email, save_processed_email and save_calendar_event calls, then
\* get_thread_history
NextHistory ==
    \/ Writing /\ SaveHistoryEmailCall
    \/ Writing /\ SaveProcessedEmailCall
    \/ Writing /\ SaveCalendarEventCall
    \/ Writing /\ Tick
    \/ GetThreadHistoryCall

SpecHistory == Init /\ [][NextHistory]_vars

MaxHistoryEvents == 2   \* rows in calendar_events when the history is read

SaveHistoryEventCall ==
    \E id \in AnnotatedIds, edata \in EventData :
        SaveCalendarEventUpTo(id, edata, MaxHistoryEvents)

\* The same with up to MaxHistoryEvents calendar events
NextEvents ==
    \/ Writing /\ SaveHistoryEmailCall
    \/ Writing /\ SaveProcessedEmailCall
    \/ Writing /\ SaveHistoryEventCall
    \/ Writing /\ Tick
    \/ GetThreadHistoryCall

SpecEvents == Init /\ [][NextEvents]_vars

\* m1 is the oldest message and m3 the newest
DateOf(id) == IF id = "m1" THEN Dates[1] ELSE IF id = "m2" THEN Dates[2] ELSE Dates[3]

\* email_data dicts of the threads T1 and T2, each with its date and one of
\* two subjects
SearchEmailData ==
    {[NoCall EXCEPT !.id = id, !.from = SenderOf(id), !.thread_id = t,
                    !.date = DateOf(id), !.subject = subject] :
        id \in QueryIds, t \in ThreadIds, subject \in {"Invoice", "Budget"}}

SearchProcessedData ==
    [summary : {"s1", "invoice due"}, intent : {"Meeting"}, ai_reply : {"ok"}]

SearchTerms == {"invoice", "INV"}

SaveSearchEmailCall ==
    \E data \in SearchEmailData : SaveEmailUpTo(data, 0, MaxSearchEmails)
SaveSearchSummaryCall ==
    \E id \in AnnotatedIds, pdata \in SearchProcessedData : SaveProcessedEmail(id, pdata)
SearchThreadsCall == \E query \in SearchTerms : SearchThreads(query)

\* save_email and save_processed_email calls, then search_threads
NextSearch ==
    \/ Writing /\ SaveSearchEmailCall
    \/ Writing /\ SaveSearchSummaryCall
    \/ SearchThreadsCall

SpecSearch == Init /\ [][NextSearch]_vars

\* save_email calls, then get_recent_threads
NextRecent ==
    \/ Writing /\ SaveDatedEmailCall
    \/ GetRecentThreadsCall

SpecRecent == Init /\ [][NextRecent]_vars

---------------------------------------------------------------------------
(* validate_cleaned_content *)

Digits == {"0", "1", "2", "3", "4", "5", "6", "7", "8", "9"}
Letters == Range(UpperCase) \cup Range(LowerCase)

\* \w: a letter, a digit or the underscore
WordChars == Letters \cup Digits \cup {"_"}

\* The character classes [\s\W], [0-9\s] and [a-zA-Z\s]
InClass(ch, class) ==
    CASE class = "[\\s\\W]" -> ch \in Whitespace \/ ch \notin WordChars
      [] class = "[0-9\\s]" -> ch \in Digits \/ ch \in Whitespace
      [] class = "[a-zA-Z\\s]" -> ch \in Letters \/ ch \in Whitespace

\* The quantifiers + and {1,3}
Repeats(n, times) ==
    CASE times = "+" -> n >= 1
      [] times = "{1,3}" -> n >= 1 /\ n <= 3

\* invalid_patterns without r'^[0-9\s]+$'
InvalidPatternsNoDigits ==
    << [class |-> "[\\s\\W]", times |-> "+"],
       [class |-> "[a-zA-Z\\s]", times |-> "{1,3}"] >>

\* Lines 159-163: invalid_patterns
InvalidPatterns ==
    << [class |-> "[\\s\\W]", times |-> "+"],
       [class |-> "[0-9\\s]", times |-> "+"],
       [class |-> "[a-zA-Z\\s]", times |-> "{1,3}"] >>

\* s is made of characters of the class, as many as the quantifier allows
ClassRun(pattern, s) ==
    /\ \A i \in DOMAIN s : InClass(s[i], pattern.class)
    /\ Repeats(Len(s), pattern.times)

\* re.match(r'^[class]times$', s): $ matches at the end of the text and
\* before a newline that ends the text
ReMatch(pattern, s) ==
    \/ ClassRun(pattern, s)
    \/ /\ s # <<>>
       /\ s[Len(s)] = "\n"
       /\ ClassRun(pattern, SubSeq(s, 1, Len(s) - 1))

\* Line 155: len(content.strip()) < 10
MinContentLength == 10

\* validate_cleaned_content
ValidateCleanedContent(text) ==
    IF text = NullStr \/ text = <<>>
    THEN FALSE
    ELSE IF Len(Strip(text, Whitespace)) < MinContentLength
         THEN FALSE
         ELSE ~\E i \in DOMAIN InvalidPatterns : ReMatch(InvalidPatterns[i], text)

\* The texts handed to the validator: None, and runs of up to MaxTextLen
\* times one character, with another character at one end or not, inside
\* whitespace or not
FillChars == {"a", "7", "-", "_", " "}
Pads == {<<>>, <<" ">>, <<"\n">>}

RunOf(n, fill, other, k) == [i \in 1..n |-> IF i = k THEN other ELSE fill]

ValidatorInputs ==
    {NullStr} \cup
    {lead \o RunOf(n, fill, other, IF atEnd THEN n ELSE 1) \o trail :
        lead \in Pads, trail \in Pads, n \in 0..MaxTextLen,
        fill \in FillChars, other \in FillChars, atEnd \in BOOLEAN}

InitValidate ==
    /\ InitStore
    /\ InitConnections
    /\ InitFile
    /\ InitFetcher
    /\ InitResolverIdle
    /\ InitQueryIdle
    /\ InitTextIdle
    /\ InitSubjectIdle
    /\ InitBatchIdle
    /\ content \in ValidatorInputs
    /\ valid = NotValidated

\* self.validate_cleaned_content(cleaned_content)
Validate ==
    /\ valid = NotValidated
    /\ valid' = <<ValidateCleanedContent(content)>>
    /\ UNCHANGED <<storeVars, clock, connVars, resolverVars, queryVars,
                   batch, pos, cleaned_emails, mapped, content, textVars, subjectVars, partVars, fileVars, fetcherVars>>

NextValidate == Validate

SpecValidate == InitValidate /\ [][NextValidate]_vars

---------------------------------------------------------------------------
(* clean_text: the patterns and re.sub *)
(* A pattern is a sequence of atoms: a literal text (matched whatever the  *)
(* case of its letters, re.IGNORECASE) or a greedy repetition of a         *)
(* character class ("any" is `.` under re.DOTALL).                         *)

Lit(chars) == <<[kind |-> "lit", text |-> chars, least |-> 0]>>
Star(class) == <<[kind |-> class, text |-> <<>>, least |-> 0]>>
Plus(class) == <<[kind |-> class, text |-> <<>>, least |-> 1]>>

\* 'headers'
HeaderPatterns ==
    << Lit(<<"F", "r", "o", "m", ":">>) \o Star("any") \o Lit(<<"\n">>),
       Lit(<<"T", "o", ":">>) \o Star("any") \o Lit(<<"\n">>),
       Lit(<<"S", "u", "b", "j", "e", "c", "t", ":">>) \o Star("any") \o Lit(<<"\n">>),
       Lit(<<"D", "a", "t", "e", ":">>) \o Star("any") \o Lit(<<"\n">>),
       Lit(<<"C", "c", ":">>) \o Star("any") \o Lit(<<"\n">>),
       Lit(<<"B", "c", "c", ":">>) \o Star("any") \o Lit(<<"\n">>),
       Lit(<<"R", "e", "p", "l", "y", "-", "T", "o", ":">>) \o Star("any") \o Lit(<<"\n">>),
       Lit(<<"R", "e", "t", "u", "r", "n", "-", "P", "a", "t", "h", ":">>) \o Star("any") \o Lit(<<"\n">>),
       Lit(<<"M", "e", "s", "s", "a", "g", "e", "-", "I", "D", ":">>) \o Star("any") \o Lit(<<"\n">>),
       Lit(<<"C", "o", "n", "t", "e", "n", "t", "-", "T", "y", "p", "e", ":">>) \o Star("any") \o Lit(<<"\n">>),
       Lit(<<"C", "o", "n", "t", "e", "n", "t", "-", "T", "r", "a", "n", "s", "f", "e", "r", "-", "E", "n", "c", "o", "d", "i", "n", "g", ":">>) \o Star("any") \o Lit(<<"\n">>) >>

\* 'forwarded'
ForwardedPatterns ==
    << Lit(<<"-", "-">>) \o Star("s") \o Lit(<<"F", "o", "r", "w", "a", "r", "d", "e", "d", " ", "m", "e", "s", "s", "a", "g", "e">>) \o Star("any"),
       Lit(<<"B", "e", "g", "i", "n", " ", "f", "o", "r", "w", "a", "r", "d", "e", "d", " ", "m", "e", "s", "s", "a", "g", "e", ":">>) \o Star("any"),
       Lit(<<"O", "r", "i", "g", "i", "n", "a", "l", " ", "M", "e", "s", "s", "a", "g", "e">>) \o Star("any") >>

\* 'replies'
ReplyPatterns ==
    << Lit(<<"O", "n">>) \o Star("any") \o Lit(<<"w", "r", "o", "t", "e", ":">>) \o Star("any"),
       Lit(<<"O", "n">>) \o Star("any") \o Lit(<<",">>) \o Star("any") \o Lit(<<"w", "r", "o", "t", "e", ":">>) \o Star("any"),
       Lit(<<"F", "r", "o", "m", ":">>) \o Star("any") \o Lit(<<"S", "e", "n", "t", ":">>) \o Star("any") \o Lit(<<"T", "o", ":">>) \o Star("any") \o Lit(<<"S", "u", "b", "j", "e", "c", "t", ":">>) \o Star("any") >>

\* 'signatures'
SignaturePatterns ==
    << Lit(<<"-", "-">>) \o Star("s") \o Lit(<<"\n">>) \o Star("any"),
       Lit(<<"B", "e", "s", "t", " ", "r", "e", "g", "a", "r", "d", "s", ",">>) \o Star("any"),
       Lit(<<"R", "e", "g", "a", "r", "d", "s", ",">>) \o Star("any"),
       Lit(<<"T", "h", "a", "n", "k", "s", ",">>) \o Star("any"),
       Lit(<<"C", "h", "e", "e", "r", "s", ",">>) \o Star("any"),
       Lit(<<"S", "i", "n", "c", "e", "r", "e", "l", "y", ",">>) \o Star("any") >>

\* 'whitespace': \s+, \n+, \t+
WhitespacePatterns ==
    << Plus("s"),
       Plus("n"),
       Plus("t") >>

\* 'quoted': >.*\n, \|.*\n
QuotedPatterns ==
    << Lit(<<">">>) \o Star("any") \o Lit(<<"\n">>),
       Lit(<<"|">>) \o Star("any") \o Lit(<<"\n">>) >>

\* 'attachments': \[image:.*\], \[cid:.*\], <image\d+>
AttachmentPatterns ==
    << Lit(<<"[", "i", "m", "a", "g", "e", ":">>) \o Star("any") \o Lit(<<"]">>),
       Lit(<<"[", "c", "i", "d", ":">>) \o Star("any") \o Lit(<<"]">>),
       Lit(<<"<", "i", "m", "a", "g", "e">>) \o Plus("d") \o Lit(<<">">>) >>

\* self.patterns.values(), each group in turn and each pattern of it in turn
AllPatterns ==
    HeaderPatterns \o ForwardedPatterns \o ReplyPatterns \o SignaturePatterns
        \o WhitespacePatterns \o QuotedPatterns \o AttachmentPatterns

\* The classes ., \s, \n, \t and \d
InAtomClass(ch, class) ==
    CASE class = "any" -> TRUE
      [] class = "s" -> ch \in Whitespace
      [] class = "n" -> ch = "\n"
      [] class = "t" -> ch = "\t"
      [] class = "d" -> ch \in Digits

Largest(set) == CHOOSE x \in set : \A y \in set : y <= x
Smallest(set) == CHOOSE x \in set : \A y \in set : x <= y

\* The position after the longest run of characters of the class from s[i]
RunEnd(s, i, class) ==
    Smallest({j \in i..(Len(s) + 1) : j = Len(s) + 1 \/ ~InAtomClass(s[j], class)})

\* The lower-case letter of each upper-case letter
Folded == [ch \in Range(UpperCase) |-> LowerChar(ch)]

Fold(ch) == IF ch \in DOMAIN Folded THEN Folded[ch] ELSE ch

\* re.IGNORECASE: a character matches itself and its letter in the other case
SameIgnoringCase(a, b) == a = b \/ Fold(a) = Fold(b)

\* The literal text chars is at s[i], whatever the case of the letters
LiteralAt(s, i, chars) ==
    /\ i + Len(chars) - 1 <= Len(s)
    /\ \A k \in DOMAIN chars : SameIgnoringCase(s[i + k - 1], chars[k])

\* The match of pattern p at s[i] that the backtracking matcher finds first:
\* the position after it, or 0 when p does not match at s[i].  A repetition
\* takes as many characters as it can and gives back as few as it must for
\* the rest of the pattern to match.
RECURSIVE MatchFrom(_, _, _)
MatchFrom(p, s, i) ==
    IF p = <<>>
    THEN i
    ELSE IF Head(p).kind = "lit"
         THEN IF LiteralAt(s, i, Head(p).text)
              THEN MatchFrom(Tail(p), s, i + Len(Head(p).text))
              ELSE 0
         ELSE LET taken == {j \in (i + Head(p).least)..RunEnd(s, i, Head(p).kind) :
                              MatchFrom(Tail(p), s, j) # 0}
              IN IF taken = {} THEN 0 ELSE MatchFrom(Tail(p), s, Largest(taken))

\* The element of a set of one element
Only(set) == CHOOSE x \in set : TRUE

\* ends[i] is the position after the match at s[i], 0 when there is none.
\* The text from s[from] on, the matches found from left to right, none
\* overlapping another, each replaced by one space (no pattern matches the
\* empty text).
RECURSIVE ReplaceFrom(_, _, _)
ReplaceFrom(ends, s, from) ==
    LET starts == {i \in from..Len(s) : ends[i] # 0} IN
      IF starts = {}
      THEN SubSeq(s, from, Len(s))
      ELSE SubSeq(s, from, Smallest(starts) - 1) \o <<" ">>
               \o ReplaceFrom(ends, s, ends[Smallest(starts)])

\* re.sub(p, ' ', s)
Sub(p, s) ==
    Only({ReplaceFrom(ends, s, 1) : ends \in {[i \in DOMAIN s |-> MatchFrom(p, s, i)]}})

\* Lines 118-120: for pattern_group ...: for pattern ...: text = re.sub(...)
RECURSIVE ApplyPatterns(_, _)
ApplyPatterns(ps, text) ==
    IF ps = <<>>
    THEN text
    ELSE Only({ApplyPatterns(Tail(ps), next) : next \in {Sub(Head(ps), text)}})

\* clean_text(content, 'text/plain')
CleanText(text) ==
    IF text = <<>>
    THEN <<>>
    ELSE Only({Strip(collapsed, Whitespace) :
                 collapsed \in {Sub(Plus("s"), ApplyPatterns(AllPatterns, text))}})

---------------------------------------------------------------------------
(* clean_text, one pattern group at a time *)

\* self.patterns: the groups in the order of the dict
PatternGroups ==
    << [name |-> "headers", patterns |-> HeaderPatterns],
       [name |-> "forwarded", patterns |-> ForwardedPatterns],
       [name |-> "replies", patterns |-> ReplyPatterns],
       [name |-> "signatures", patterns |-> SignaturePatterns],
       [name |-> "whitespace", patterns |-> WhitespacePatterns],
       [name |-> "quoted", patterns |-> QuotedPatterns],
       [name |-> "attachments", patterns |-> AttachmentPatterns] >>

\* The call of clean_text that is running or ran last has returned
TextReturned == applied # <<>> /\ applied[Len(applied)] = "return"

\* The content handed to the call of clean_text that is running or ran last
CallContent == IF Len(returned) - (IF TextReturned THEN 1 ELSE 0) = 0
               THEN content
               ELSE returned[1]

\* Lines 98-99: if not content: return ""
ReturnEmpty ==
    /\ applied = <<>>
    /\ txt = <<>>
    /\ Len(returned) < 2
    /\ applied' = <<"return">>
    /\ returned' = Append(returned, <<>>)
    /\ UNCHANGED <<storeVars, clock, connVars, resolverVars, queryVars, cleanerVars, txt, subjectVars, partVars, fileVars, fetcherVars>>

\* Lines 117-120: one turn of `for pattern_group in self.patterns.values()`
ApplyGroup ==
    /\ ~(applied = <<>> /\ txt = <<>>)
    /\ ~TextReturned
    /\ Len(applied) < Len(PatternGroups)
    /\ txt' = ApplyPatterns(PatternGroups[Len(applied) + 1].patterns, txt)
    /\ applied' = Append(applied, PatternGroups[Len(applied) + 1].name)
    /\ UNCHANGED <<storeVars, clock, connVars, resolverVars, queryVars, cleanerVars, returned, subjectVars, partVars, fileVars, fetcherVars>>

\* Lines 122-126: the whitespace is normalised, the text stripped and returned
Normalize ==
    /\ ~TextReturned
    /\ Len(applied) = Len(PatternGroups)
    /\ \E stripped \in {Strip(Sub(Plus("s"), txt), Whitespace)} :
         /\ txt' = stripped
         /\ returned' = Append(returned, stripped)
    /\ applied' = Append(applied, "return")
    /\ UNCHANGED <<storeVars, clock, connVars, resolverVars, queryVars, cleanerVars, subjectVars, partVars, fileVars, fetcherVars>>

\* clean_text is called with the text it returned
CleanAgain ==
    /\ TextReturned
    /\ Len(returned) = 1
    /\ txt' = returned[1]
    /\ applied' = <<>>
    /\ UNCHANGED <<storeVars, clock, connVars, resolverVars, queryVars, cleanerVars, returned, subjectVars, partVars, fileVars, fetcherVars>>

\* Pieces of text/plain content
Fragments ==
    { <<"H", "i">>,
      <<">", " ", "o", "l", "d">>,
      <<"|", " ", "q">>,
      <<"O", "r", "i", "g", "i", "n", "a", "l">>,
      <<"M", "e", "s", "s", "a", "g", "e", " ", "x">>,
      <<"T", "h", "a", "n", "k", "s", ",", " ", "B">>,
      <<" ", " ">>,
      <<"[", "c", "i", "d", ":", "1", "]">>,
      <<"F", "r", "o", "m", ":", " ", "a">>,
      <<"-", "-">> }

LineEnd == <<"\n">>

\* Two pieces on one line or on two lines, the last line ended or not
TextInputs ==
    {<<>>} \cup {a \o sep \o b \o end : a \in Fragments, b \in Fragments,
                                        sep \in {<<" ">>, LineEnd},
                                        end \in {<<>>, LineEnd}}

InitCleanText ==
    /\ InitStore
    /\ InitConnections
    /\ InitFile
    /\ InitFetcher
    /\ InitResolverIdle
    /\ InitQueryIdle
    /\ InitBatchIdle
    /\ content \in TextInputs
    /\ valid = NotValidated
    /\ txt = content
    /\ applied = <<>>
    /\ returned = <<>>
    /\ InitSubjectIdle

NextCleanText ==
    \/ ReturnEmpty
    \/ ApplyGroup
    \/ Normalize
    \/ CleanAgain

SpecCleanText == InitCleanText /\ [][NextCleanText]_vars

---------------------------------------------------------------------------
(* process_email *)
(* The body of an email_data is the text of a message: header lines, an    *)
(* empty line, the payload.  A body without parts carries no Content-Type  *)
(* and no Content-Transfer-Encoding header, so the one part is text/plain  *)
(* and its payload is cleaned as it is.  A body with parts is              *)
(* multipart/mixed with the boundary B; its parts are leaves, each with a  *)
(* Content-Type, at most a Content-Disposition, and no                     *)
(* Content-Transfer-Encoding, and no text part holds markup.               *)

ReplyMarker == <<"[", "R", "E", "P", "L", "Y", " ", "t", "o", " ", "t", "h", "r",
      "e", "a", "d", ":", " ">>
InReplyToMarker == <<"[", "I", "n", " ", "r", "e", "p", "l", "y", " ", "t", "o", ":",
      " ">>
MarkerEnd == <<"]", " ">>
MessageIdName == <<"M", "e", "s", "s", "a", "g", "e", "-", "I", "D", ":", " ">>
ReferencesName == <<"R", "e", "f", "e", "r", "e", "n", "c", "e", "s", ":", " ">>
InReplyToName == <<"I", "n", "-", "R", "e", "p", "l", "y", "-", "T", "o", ":", " ">>
FromLine == <<"F", "r", "o", "m", " ">>

\* A body that is not a str
NotStr == <<"not a str">>

HeaderLine(name, value) == IF value = <<>> THEN <<>> ELSE name \o value \o <<"\n">>

HeaderBlock(m) ==
    HeaderLine(MessageIdName, m.message_id_header)
        \o HeaderLine(ReferencesName, m.references_header)
        \o HeaderLine(InReplyToName, m.in_reply_to_header)

ContentTypeName == <<"C", "o", "n", "t", "e", "n", "t", "-", "T", "y", "p", "e", ":", " ">>
ContentDispositionName == <<"C", "o", "n", "t", "e", "n", "t", "-", "D", "i", "s", "p", "o", "s", "i", "t", "i", "o", "n", ":", " ">>
MultipartMixed == <<"m", "u", "l", "t", "i", "p", "a", "r", "t", "/", "m", "i", "x", "e", "d", ";", " ", "b", "o", "u", "n", "d", "a", "r", "y", "=", "\"", "B", "\"">>
Delimiter == <<"-", "-", "B", "\n">>
CloseDelimiter == <<"-", "-", "B", "-", "-", "\n">>

\* One part between two delimiters: its headers, an empty line, its payload
PartText(part) ==
    Delimiter
        \o HeaderLine(ContentTypeName, part.maintype \o <<"/">> \o part.subtype)
        \o HeaderLine(ContentDispositionName, part.disposition)
        \o <<"\n">> \o part.payload \o <<"\n">>

RECURSIVE PartTexts(_)
PartTexts(parts) ==
    IF parts = <<>> THEN <<>> ELSE PartText(Head(parts)) \o PartTexts(Tail(parts))

\* email_message.is_multipart()
IsMultipart(m) == m.parts # <<>>

\* email_data.get("body", "")
RawBody(m) ==
    IF ~m.body_is_str
    THEN NotStr
    ELSE IF IsMultipart(m)
         THEN HeaderBlock(m) \o HeaderLine(ContentTypeName, MultipartMixed)
                  \o <<"\n">> \o PartTexts(m.parts) \o CloseDelimiter
         ELSE IF HeaderBlock(m) = <<>>
              THEN m.payload
              ELSE HeaderBlock(m) \o <<"\n">> \o m.payload

\* The first line of the text is taken for a header by message_from_string:
\* it starts with a blank, with "From " or with a name and a colon
LooksLikeHeader(text) ==
    /\ text # <<>>
    /\ \/ text[1] \in {" ", "\t"}
       \/ StartsWith(text, FromLine)
       \/ \E k \in DOMAIN text :
             /\ text[k] = ":"
             /\ \A j \in 1..(k - 1) : text[j] \notin Whitespace \cup {":"}

\* The payload of m is what email_message.get_payload() returns for its body
PayloadIsBody(m) == HeaderBlock(m) # <<>> \/ ~LooksLikeHeader(m.payload)

\* Lines 321-324: context
Context(subject_root, in_reply_to) ==
    ReplyMarker \o subject_root \o MarkerEnd
        \o (IF in_reply_to # <<>> /\ in_reply_to # NullStr
            THEN InReplyToMarker \o in_reply_to \o MarkerEnd
            ELSE <<>>)

\* Lines 313-315 without the fallback: the cleaned text is kept as it is
CleanedContentNoFallback(cleaned, raw_body) == cleaned

\* Lines 313-315: the cleaned text, or the raw body when it is not valid
CleanedContent(cleaned, raw_body) ==
    IF ValidateCleanedContent(cleaned) THEN cleaned ELSE raw_body

\* Lines 317-327: email_data updated with the thread info and with
\* cleaned_summary, the context coming first for a reply
Cleaned(m, thread_info, cleaned_content) ==
    [message_id |-> thread_info.message_id,
     thread_id |-> thread_info.thread_id,
     in_reply_to |-> thread_info.in_reply_to,
     references |-> thread_info.references,
     is_reply |-> thread_info.is_reply,
     subject_root |-> thread_info.subject_root,
     participants |-> thread_info.participants,
     subject |-> m.subject,
     body |-> RawBody(m),
     cleaned_summary |->
         IF thread_info.is_reply
         THEN Context(thread_info.subject_root, thread_info.in_reply_to) \o cleaned_content
         ELSE cleaned_content]

\* Lines 329-331: message_from_string(raw_body) raised after the update
\* with the thread info; email_data has no cleaned_summary
NotCleaned(m, thread_info) ==
    [message_id |-> thread_info.message_id,
     thread_id |-> thread_info.thread_id,
     in_reply_to |-> thread_info.in_reply_to,
     references |-> thread_info.references,
     is_reply |-> thread_info.is_reply,
     subject_root |-> thread_info.subject_root,
     participants |-> thread_info.participants,
     subject |-> m.subject,
     body |-> RawBody(m),
     cleaned_summary |-> NullStr]

TextType == <<"t", "e", "x", "t">>

\* Lines 132-144: the payload of a part without transfer encoding, cleaned
ProcessEmailPart(part) == CleanText(part.payload)

\* Lines 300-305: the parts that email_message.walk() gives after the
\* multipart container itself, which is not of main type text
RECURSIVE WalkParts(_)
WalkParts(parts) ==
    IF parts = <<>>
    THEN <<>>
    ELSE IF Head(parts).maintype = TextType
         THEN Only({(IF cleaned_part # <<>> THEN <<cleaned_part>> ELSE <<>>)
                        \o WalkParts(Tail(parts)) :
                      cleaned_part \in {ProcessEmailPart(Head(parts))}})
         ELSE WalkParts(Tail(parts))

\* Lines 299-307: cleaned_parts
CleanedParts(m) ==
    IF IsMultipart(m) THEN WalkParts(m.parts) ELSE <<CleanText(m.payload)>>

\* ' '.join(cleaned_parts)
RECURSIVE Join(_)
Join(strs) ==
    IF strs = <<>>
    THEN <<>>
    ELSE IF Len(strs) = 1
         THEN strs[1]
         ELSE strs[1] \o <<" ">> \o Join(Tail(strs))

\* process_email(email_data)
ProcessEmail(m, now) ==
    IF ~m.body_is_str
    THEN NotCleaned(m, ExtractThreadInfo(m, now))
    ELSE Only({Cleaned(m, thread_info, CleanedContent(cleaned, RawBody(m))) :
                 thread_info \in {ExtractThreadInfo(m, now)},
                 cleaned \in {Join(CleanedParts(m))}})

---------------------------------------------------------------------------
(* clean_emails and process_emails: a batch of email_data dicts *)

\* if cleaned_email: kept only when process_email set cleaned_summary
KeptWhenCleaned(cleaned_email) == cleaned_email.cleaned_summary # NullStr

\* Line 107 of run_all.py: if cleaned_email (a dict with a key is truthy)
Kept(cleaned_email) == DOMAIN cleaned_email # {}

\* One turn of the loop of clean_emails
CleanEmailsNext ==
    /\ pos < Len(batch)
    /\ \E cleaned_email \in {ProcessEmail(batch[pos + 1], clock)} :
         cleaned_emails' = IF Kept(cleaned_email)
                           THEN Append(cleaned_emails, cleaned_email)
                           ELSE cleaned_emails
    /\ pos' = pos + 1
    /\ UNCHANGED <<storeVars, clock, connVars, resolverVars, queryVars,
                   batch, mapped, content, valid, textVars, subjectVars, partVars, fileVars, fetcherVars>>

\* executor.map(cleaner.process_email, emails): a worker takes an email
\* that no worker has taken and stores the result under its index
MapWorker(i) ==
    /\ i \notin DOMAIN mapped
    /\ mapped' = Insert(mapped, i, ProcessEmail(batch[i], clock))
    /\ UNCHANGED <<storeVars, clock, connVars, resolverVars, queryVars,
                   batch, pos, cleaned_emails, content, valid, textVars, subjectVars, partVars, fileVars, fetcherVars>>

MapWorkers == \E i \in DOMAIN batch : MapWorker(i)

HelloWorld == <<"h", "e", "l", "l", "o", " ", "w", "o", "r", "l", "d">>

\* A message that is fine, one whose cleaned text is not valid, one whose
\* subject is None and one whose body is not a str
BatchMessages ==
    { [NoMessage EXCEPT !.payload = HelloWorld],
      [NoMessage EXCEPT !.payload = <<".", ".", ".", "-", "-", "-">>],
      [NoMessage EXCEPT !.payload = HelloWorld, !.subject = NullStr],
      [NoMessage EXCEPT !.body_is_str = FALSE] }

Batches == UNION {[1..n -> BatchMessages] : n \in 0..MaxBatch}

InitBatch(inputs) ==
    /\ InitStore
    /\ InitConnections
    /\ InitFile
    /\ InitFetcher
    /\ InitResolverIdle
    /\ InitQueryIdle
    /\ InitTextIdle
    /\ InitSubjectIdle
    /\ InitValidatorIdle
    /\ batch \in inputs
    /\ pos = 0
    /\ cleaned_emails = <<>>
    /\ mapped = <<>>
    /\ cleaned_parts = <<>>

InitClean == InitBatch(Batches)

NextClean ==
    \/ CleanEmailsNext
    \/ MapWorkers

SpecClean == InitClean /\ [][NextClean]_vars

Payloads ==
    { <<>>,
      \* "...---"
      <<".", ".", ".", "-", "-", "-">>,
      \* "hello world"
      <<"h", "e", "l", "l", "o", " ", "w", "o", "r", "l", "d">>,
      \* "ok"
      <<"o", "k">>,
      \* "Thanks, Bob\n"
      <<"T", "h", "a", "n", "k", "s", ",", " ", "B", "o", "b", "\n">>,
      \* "Hi team\n> old text\nsee you\n"
      <<"H", "i", " ", "t", "e", "a", "m", "\n", ">", " ", "o", "l",
        "d", " ", "t", "e", "x", "t", "\n", "s", "e", "e", " ", "y",
        "o", "u", "\n">>,
      \* "Hi all\n-- \nBob"
      <<"H", "i", " ", "a", "l", "l", "\n", "-", "-", " ", "\n", "B",
        "o", "b">>,
      \* "1234567890"
      <<"1", "2", "3", "4", "5", "6", "7", "8", "9", "0">>,
      \* "Note that On Monday Al wrote: hi"
      <<"N", "o", "t", "e", " ", "t", "h", "a", "t", " ", "O", "n",
        " ", "M", "o", "n", "d", "a", "y", " ", "A", "l", " ", "w",
        "r", "o", "t", "e", ":", " ", "h", "i">>,
      \* "Subject: hi\nhello world again"
      <<"S", "u", "b", "j", "e", "c", "t", ":", " ", "h", "i", "\n",
        "h", "e", "l", "l", "o", " ", "w", "o", "r", "l", "d", " ",
        "a", "g", "a", "i", "n">>,
      \* "see [image: a.png] attached file"
      <<"s", "e", "e", " ", "[", "i", "m", "a", "g", "e", ":", " ",
        "a", ".", "p", "n", "g", "]", " ", "a", "t", "t", "a", "c",
        "h", "e", "d", " ", "f", "i", "l", "e">> }

\* The messages process_email is applied to
ProcessMessages ==
    {m \in {[NoMessage EXCEPT !.payload = payload, !.in_reply_to_header = irt,
                              !.message_id_header = mid, !.subject = subj] :
               payload \in Payloads, irt \in {<<>>, <<"<", "b", ">">>},
               mid \in {<<>>, <<"<", "m", ">">>},
               subj \in {<<>>, NullStr, ReBudgetReview}} :
        PayloadIsBody(m)}
        \cup UnparsableMessages

\* clean_emails handed one message
InitProcess == InitBatch({<<m>> : m \in ProcessMessages})

NextProcess == CleanEmailsNext

SpecProcess == InitProcess /\ [][NextProcess]_vars

\* One turn of the loop of clean_emails, the list cleaned_parts of
\* process_email kept as it was when process_email returned
CleanMultipartNext ==
    /\ pos < Len(batch)
    /\ \E cleaned_email \in {ProcessEmail(batch[pos + 1], clock)} :
         cleaned_emails' = IF Kept(cleaned_email)
                           THEN Append(cleaned_emails, cleaned_email)
                           ELSE cleaned_emails
    /\ cleaned_parts' = CleanedParts(batch[pos + 1])
    /\ pos' = pos + 1
    /\ UNCHANGED <<storeVars, clock, connVars, resolverVars, queryVars,
                   batch, mapped, content, valid, textVars, subjectVars, fileVars, fetcherVars>>

NoDisposition == <<>>
Attachment == <<"a", "t", "t", "a", "c", "h", "m", "e", "n", "t", ";", " ", "f", "i", "l", "e", "n", "a", "m", "e", "=", "\"", "n", "\"">>

\* Parts: a text, a text attached, a table attached, an image, a document
\* attached, a text of blanks, a text that is a signature
Parts ==
    { [maintype |-> TextType, subtype |-> <<"p", "l", "a", "i", "n">>,
       disposition |-> NoDisposition, payload |-> <<"h", "e", "l", "l", "o", " ", "e", "v", "e", "r", "y", "o", "n", "e">>],
      [maintype |-> TextType, subtype |-> <<"p", "l", "a", "i", "n">>,
       disposition |-> Attachment, payload |-> <<"s", "e", "c", "r", "e", "t", " ", "n", "o", "t", "e", "s">>],
      [maintype |-> TextType, subtype |-> <<"c", "s", "v">>,
       disposition |-> Attachment, payload |-> <<"a", ";", "b", ";", "c", ";", "d", ";", "e", ";", "f">>],
      [maintype |-> <<"i", "m", "a", "g", "e">>, subtype |-> <<"p", "n", "g">>,
       disposition |-> NoDisposition, payload |-> <<"i", "V", "B", "O", "R", "w", "0", "K", "G", "g", "o", "=">>],
      [maintype |-> <<"a", "p", "p", "l", "i", "c", "a", "t", "i", "o", "n">>, subtype |-> <<"p", "d", "f">>,
       disposition |-> Attachment, payload |-> <<"J", "V", "B", "E", "R", "i", "0", "x", "L", "j", "Q", "=">>],
      [maintype |-> TextType, subtype |-> <<"p", "l", "a", "i", "n">>,
       disposition |-> NoDisposition, payload |-> <<" ", " ">>],
      [maintype |-> TextType, subtype |-> <<"p", "l", "a", "i", "n">>,
       disposition |-> NoDisposition, payload |-> <<"T", "h", "a", "n", "k", "s", ",", " ", "B", "o", "b">>],
      [maintype |-> TextType, subtype |-> <<"p", "l", "a", "i", "n">>,
       disposition |-> NoDisposition, payload |-> <<"s", "e", "e", " ", "y", "o", "u", " ", "s", "o", "o", "n">>] }

MaxParts == 2       \* parts of a multipart body

PartLists == UNION {[1..n -> Parts] : n \in 1..MaxParts}

MultipartMessages == {[NoMessage EXCEPT !.parts = parts] : parts \in PartLists}

InitMultipart == InitBatch({<<m>> : m \in MultipartMessages})

NextMultipart == CleanMultipartNext

SpecMultipart == InitMultipart /\ [][NextMultipart]_vars

---------------------------------------------------------------------------
(* EmailDatabase: the emails kept in the file data/raw/emails.json *)
(* The file holds a JSON list, or text that json.load cannot read: open    *)
(* with 'w' empties the file before json.dump writes, so a dump that raises *)
(* (a value of the email that JSON cannot hold) leaves part of a list.      *)

MaxFileCalls == 3   \* calls of EmailDatabase.save_email

\* The emails handed to save_email, as dicts without 'id'
FileEmails == {[subject |-> "Budget"], [subject |-> "Invoice"]}

\* Lines 34-41: the list read from the file, [] when reading it raises
LoadJson(file, load_raises) ==
    IF file.readable /\ ~load_raises THEN file.data ELSE <<>>

\* Lines 26-32: the file after _save_json(data): written, left as it was
\* (open raised), or left with part of the text (json.dump raised)
SaveJson(file, data, outcome) ==
    CASE outcome = "written" -> [readable |-> TRUE, data |-> data]
      [] outcome = "open raised" -> file
      [] outcome = "dump raised" -> [readable |-> FALSE, data |-> <<>>]

SaveOutcomes == {"written", "open raised", "dump raised"}

\* Line 46: email_id = str(len(emails) + 1)
FileEmailId(loaded) == ToString(Len(loaded) + 1)

\* Line 47: email['id'] = email_id
WithId(email, email_id) == [id |-> email_id, subject |-> email.subject]

\* Lines 43-50: EmailDatabase.save_email(email)
FileSaveEmail(email, load_raises, outcome) ==
    /\ Len(file_log) < MaxFileCalls
    /\ \E loaded \in {LoadJson(emails_file, load_raises)} :
         \E email_id \in {FileEmailId(loaded)} :
           /\ emails_file' = SaveJson(emails_file,
                                      Append(loaded, WithId(email, email_id)), outcome)
           /\ file_log' = Append(file_log, WithId(email, email_id))
    /\ UNCHANGED <<storeVars, clock, connVars, resolverVars, queryVars, cleanerVars,
                   textVars, subjectVars, partVars, fetcherVars>>

\* Lines 66-69: the first email of the list with that id, None (<<>>) without one
FirstWithId(loaded, email_id) ==
    LET found == {i \in DOMAIN loaded : loaded[i].id = email_id} IN
      IF found = {} THEN <<>> ELSE <<loaded[Smallest(found)]>>

\* Lines 63-69: EmailDatabase.get_email(email_id)
FileGetEmail(email_id, load_raises) ==
    /\ answer' = [op |-> "get_email", id |-> email_id,
                  value |-> FirstWithId(LoadJson(emails_file, load_raises), email_id)]
    /\ UNCHANGED <<storeVars, clock, connVars, resolverVars, cleanerVars,
                   textVars, subjectVars, partVars, fileVars, fetcherVars>>

FileIds == {ToString(n) : n \in 1..MaxFileCalls}

NextFile ==
    \/ \E email \in FileEmails, load_raises \in BOOLEAN, outcome \in SaveOutcomes :
          FileSaveEmail(email, load_raises, outcome)
    \/ \E email_id \in FileIds, load_raises \in BOOLEAN :
          FileGetEmail(email_id, load_raises)

SpecFile == Init /\ [][NextFile]_vars

---------------------------------------------------------------------------
(* GmailFetcher outside development mode, and the loop that polls with it *)
(* self.mail is None, or an imaplib connection that is "NONAUTH" (login     *)
(* was refused), "AUTH" (logged in; a selected mailbox is not told apart)   *)
(* or "LOGOUT": imaplib's logout() sets that state before it sends the      *)
(* command, so the state is LOGOUT whether logout() returns or raises.      *)
(* The messages of the inbox are numbered from 1; the dict built from       *)
(* message n is written n.                                                   *)

MaxCycles == 3      \* turns of the loop of run_every_5_minutes
MaxInbox == 2       \* messages in the inbox

ConnectOutcomes == {"connected", "login refused", "no connection"}

\* Lines 49-66: self.mail and self.connected after connect()
Connect(outcome) ==
    CASE outcome = "connected" -> [mail |-> "AUTH", connected |-> TRUE]
      [] outcome = "login refused" -> [mail |-> "NONAUTH", connected |-> connected]
      [] outcome = "no connection" -> [mail |-> mail, connected |-> connected]

\* Lines 68-76: self.mail and self.connected after disconnect()
Disconnect(fetcher, logout_raises) ==
    IF fetcher.connected /\ fetcher.mail # "None"
    THEN [mail |-> "LOGOUT", connected |-> logout_raises]
    ELSE fetcher

\* Lines 179-203: the dicts of the messages whose fetch did not fail, oldest first
FetchedLists == {SelectSeq([n \in 1..inbox |-> n], LAMBDA n : n \in kept) :
                    kept \in SUBSET (1..inbox)}

\* Lines 167-209: what the try block returns on a connection in that state
FetchedOn(state, outcome) ==
    IF state # "AUTH" \/ outcome # "fetched" THEN {<<>>} ELSE FetchedLists

FetchOutcomes == {"fetched", "search failed", "raised"}

\* Lines 213-228: save_emails(emails)
SaveEmails(file, fetched_emails, outcome) == SaveJson(file, fetched_emails, outcome)

\* Lines 236-247: one turn of the loop: fetch_emails(limit=100), lines
\* 164-211, then save_emails when the list is not empty
PollCycle(connect_outcome, fetch_outcome, logout_raises, save_outcome) ==
    /\ cycles < MaxCycles
    /\ cycles' = cycles + 1
    /\ \E opened \in {IF connected
                      THEN [mail |-> mail, connected |-> connected]
                      ELSE Connect(connect_outcome)} :
         IF ~opened.connected
         THEN /\ mail' = opened.mail
              /\ connected' = opened.connected
              /\ fetch_returned' = <<>>
              /\ selected_on' = "None"
              /\ UNCHANGED emails_json
         ELSE /\ selected_on' = opened.mail
              /\ \E closed \in {Disconnect(opened, logout_raises)} :
                   /\ mail' = closed.mail
                   /\ connected' = closed.connected
              /\ \E fetched_emails \in FetchedOn(opened.mail, fetch_outcome) :
                   /\ fetch_returned' = fetched_emails
                   /\ emails_json' = IF fetched_emails # <<>>
                                     THEN SaveEmails(emails_json, fetched_emails, save_outcome)
                                     ELSE emails_json
    /\ UNCHANGED <<storeVars, clock, connVars, resolverVars, queryVars, cleanerVars,
                   textVars, subjectVars, partVars, fileVars, inbox>>

\* A message arrives in the inbox
Arrive ==
    /\ inbox < MaxInbox
    /\ inbox' = inbox + 1
    /\ UNCHANGED <<storeVars, clock, connVars, resolverVars, queryVars, cleanerVars,
                   textVars, subjectVars, partVars, fileVars,
                   connected, mail, cycles, fetch_returned, selected_on, emails_json>>

NextPoll ==
    \/ \E connect_outcome \in ConnectOutcomes, fetch_outcome \in FetchOutcomes,
          logout_raises \in BOOLEAN, save_outcome \in SaveOutcomes :
          PollCycle(connect_outcome, fetch_outcome, logout_raises, save_outcome)
    \/ Arrive

SpecPoll == Init /\ [][NextPoll]_vars

---------------------------------------------------------------------------
(* The thread aggregates *)

\* The messages whose thread_id column is t
EmailsOfThread(t) == {id \in DOMAIN emails : emails[id].thread_id = t}

\* The messages that were handed to save_email with thread_id t
EmailsSavedWith(t) == {id \in DOMAIN emails : emails[id].raw_data.thread_id = t}

SendersOf(ids) == {emails[id].sender : id \in ids}

AddressesOf(ids) ==
    UNION {{emails[id].sender} \cup emails[id].raw_data.to \cup emails[id].raw_data.cc :
             id \in ids}

NoRepeat(s) == Cardinality(Range(s)) = Len(s)

AllIdle == \A c \in Connections : pc[c] = "idle"

\* C1: after any sequence of save_email calls run one after the other, the
\* row of a thread_id has message_count equal to the number of messages
\* saved with it, and its participants list holds exactly the distinct
\* 'from' values of those messages, none of them twice; a thread_id no
\* message was saved with has no row.
C1_SequentialAggregate ==
    \A t \in ThreadIds :
        IF EmailsOfThread(t) = {}
        THEN t \notin DOMAIN threads
        ELSE /\ t \in DOMAIN threads
             /\ threads[t].message_count = Cardinality(EmailsOfThread(t))
             /\ Range(threads[t].participants) = SendersOf(EmailsOfThread(t))
             /\ NoRepeat(threads[t].participants)

\* Two messages of one sender in one thread: counted twice, listed once
C1_Witness ==
    \E t \in DOMAIN threads :
        /\ threads[t].message_count = 2
        /\ Len(threads[t].participants) = 1

\* C2: when no save_email call is running, whatever the interleaving of the
\* calls was, every thread's message_count is the number of inserted
\* messages of the thread and every inserting sender is in participants.
C2_ConcurrentAggregate ==
    AllIdle =>
        \A t \in ThreadIds :
            EmailsOfThread(t) # {} =>
                /\ t \in DOMAIN threads
                /\ threads[t].message_count = Cardinality(EmailsOfThread(t))
                /\ SendersOf(EmailsOfThread(t)) \subseteq Range(threads[t].participants)

\* C3: in every durable state a message with a thread_id is in emails only
\* if the threads row of that thread_id exists and counts it.
C3_AllOrNothing ==
    \A t \in ThreadIds :
        /\ EmailsOfThread(t) # {} => t \in DOMAIN threads
        /\ t \in DOMAIN threads =>
               threads[t].message_count = Cardinality(EmailsOfThread(t))

\* C4: in every state reached by save_email and link_email_thread calls,
\* message_count of every threads row is the number of emails rows with
\* that thread_id.
C4_CountMatchesEmails ==
    \A t \in DOMAIN threads :
        threads[t].message_count = Cardinality(EmailsOfThread(t))

C6_ThreadIdWriteOnce ==
    [][\A id \in DOMAIN emails :
          Truthy(emails[id].thread_id) =>
              /\ id \in DOMAIN emails'
              /\ emails'[id].thread_id = emails[id].thread_id]_vars

\* C6 amended: a step that inserts a message, writes an annotation or a
\* calendar event changes no stored thread_id; a stored thread_id changes
\* only to the non-empty thread_id of a stored message o, in the step that
\* also sets in_reply_to to o and references to [o] (link_email_thread).
C6_ThreadIdChangedOnlyByLink ==
    [][\A id \in DOMAIN emails :
          /\ id \in DOMAIN emails'
          /\ emails'[id].thread_id # emails[id].thread_id =>
                /\ DOMAIN emails' = DOMAIN emails
                /\ processed' = processed
                /\ calendar' = calendar
                /\ \E o \in DOMAIN emails :
                      /\ Truthy(emails[o].thread_id)
                      /\ emails'[id].thread_id = emails[o].thread_id
                      /\ emails'[id].in_reply_to = o
                      /\ emails'[id].references = <<o>>]_vars

\* A linked message, with an annotation and a calendar event in the store
C6_Witness ==
    /\ \E id \in DOMAIN emails :
           /\ Truthy(emails[id].raw_data.thread_id)
           /\ emails[id].thread_id # emails[id].raw_data.thread_id
    /\ processed # <<>>
    /\ calendar # <<>>

\* C8: from one state to the next the last_updated of a threads row never
\* decreases.
C8_LastUpdatedMonotone ==
    [][\A t \in DOMAIN threads :
          /\ t \in DOMAIN threads'
          /\ threads'[t].last_updated >= threads[t].last_updated]_vars

\* A thread updated by a second message at a later time than its first
C8_Witness ==
    \E t \in DOMAIN threads :
        /\ threads[t].message_count = 2
        /\ threads[t].last_updated = 2

---------------------------------------------------------------------------
(* The resolved thread identity *)

HasWord(header) == \E i \in DOMAIN header : header[i] \notin Whitespace

\* The first whitespace-delimited word of a header value
FirstWord(header) ==
    LET stops == {i \in DOMAIN header : header[i] \in Whitespace}
        stop == IF stops = {} THEN Len(header) + 1
                ELSE CHOOSE i \in stops : \A k \in stops : i <= k
    IN SubSeq(header, 1, stop - 1)

\* x is raw without the angle brackets at its two ends
IsStrippedOf(x, raw) ==
    \E i \in 1..(Len(raw) + 1), j \in 0..Len(raw) :
        /\ x = SubSeq(raw, i, j)
        /\ \A k \in 1..(i - 1) : raw[k] \in AngleBrackets
        /\ \A k \in (j + 1)..Len(raw) : raw[k] \in AngleBrackets
        /\ x # <<>> => x[1] \notin AngleBrackets /\ x[Len(x)] \notin AngleBrackets

\* p is made of reply/forward prefixes and whitespace only
RECURSIVE IsPrefixRun(_)
IsPrefixRun(p) ==
    \/ p = <<>>
    \/ Head(p) \in Whitespace /\ IsPrefixRun(Tail(p))
    \/ \E k \in DOMAIN Prefixes :
          /\ StartsWith(p, Prefixes[k])
          /\ IsPrefixRun(SubSeq(p, Len(Prefixes[k]) + 1, Len(p)))

\* root is the lower-cased subject without its leading reply/forward
\* prefixes and without the whitespace around it
IsSubjectRootOf(root, subject) ==
    LET low == Lower(subject) IN
      /\ \A i \in DOMAIN root : root[i] \notin Range(UpperCase)
      /\ ~AnyPrefix(root)
      /\ root # <<>> => root[1] \notin Whitespace /\ root[Len(root)] \notin Whitespace
      /\ \E i \in 1..(Len(low) + 1), j \in 0..Len(low) :
            /\ root = SubSeq(low, i, j)
            /\ IsPrefixRun(SubSeq(low, 1, i - 1))
            /\ \A k \in (j + 1)..Len(low) : low[k] \in Whitespace

\* C7 as stated: the thread_id extract_thread_info returns is neither null
\* nor empty, on the exception path as on the others.
C7_ThreadIdNeverNull ==
    Resolved => result.thread_id # NullStr /\ result.thread_id # <<>>

\* C7 amended: when the resolution raises, the returned thread_id is null;
\* when it does not, the thread_id is not null, and it is empty exactly when
\* the first word of References consists of angle brackets only.
C7_ThreadIdNullOnlyWhenDegraded ==
    Resolved =>
        IF Raises(msg)
        THEN result.thread_id = NullStr
        ELSE /\ result.thread_id # NullStr
             /\ result.thread_id = <<>> <=>
                    /\ HasWord(msg.references_header)
                    /\ \A i \in DOMAIN FirstWord(msg.references_header) :
                          FirstWord(msg.references_header)[i] \in AngleBrackets

\* A message with a References header and no subject: the degraded result
C7_Witness ==
    /\ Resolved
    /\ Raises(msg)
    /\ HasWord(msg.references_header)
    /\ result.thread_id = NullStr

\* C9: a message with a non-empty reference chain and a non-empty
\* In-Reply-To gets as thread_id the first element of the chain (the first
\* word of References without its angle brackets).
C9_FirstReferenceWins ==
    (/\ Resolved
     /\ ~Raises(msg)
     /\ HasWord(msg.references_header)
     /\ msg.in_reply_to_header # <<>>) =>
        /\ result.thread_id = result.references[1]
        /\ IsStrippedOf(result.thread_id, FirstWord(msg.references_header))

\* Two references and an In-Reply-To that names another message
C9_Witness ==
    /\ Resolved
    /\ Len(result.references) = 2
    /\ result.in_reply_to # <<>>
    /\ result.thread_id = result.references[1]
    /\ result.thread_id # result.in_reply_to
    /\ result.thread_id # result.message_id

\* C10: a message with an empty reference chain and a non-empty in_reply_to
\* X is a reply, its thread_id is X without angle brackets, and its
\* subject_root is the lower-cased subject without reply/forward prefixes
\* ("Re: Budget Review" gives "budget review").
C10_InReplyToFallback ==
    (/\ Resolved
     /\ ~Raises(msg)
     /\ ~HasWord(msg.references_header)
     /\ \E i \in DOMAIN msg.in_reply_to_header :
           msg.in_reply_to_header[i] \notin AngleBrackets) =>
        /\ result.is_reply
        /\ result.thread_id # <<>>
        /\ IsStrippedOf(result.thread_id, msg.in_reply_to_header)
        /\ IsSubjectRootOf(result.subject_root, msg.subject)
        /\ msg.subject = ReBudgetReview => result.subject_root = BudgetReview

\* "Re: Budget Review" in reply to <abc123>
C10_Witness ==
    /\ Resolved
    /\ msg = ExampleMessage
    /\ result.is_reply
    /\ result.thread_id = <<"a", "b", "c", "1", "2", "3">>
    /\ result.subject_root = BudgetReview

\* Some character of the header value is not an angle bracket
HasIdentity(header) == \E i \in DOMAIN header : header[i] \notin AngleBrackets

\* C11: when the resolution does not raise, is_reply is true exactly when
\* In-Reply-To (without its angle brackets) is non-empty or References has
\* a word; when is_reply is false the thread_id is the message_id, which is
\* the Message-ID header without its angle brackets or, when nothing is
\* left of it, the non-empty synthesized timestamp.
C11_IsReplyIffLinked ==
    (Resolved /\ ~Raises(msg)) =>
        /\ result.is_reply <=>
               (HasIdentity(msg.in_reply_to_header) \/ HasWord(msg.references_header))
        /\ result.is_reply <=>
               (result.in_reply_to # <<>> \/ result.references # <<>>)
        /\ ~result.is_reply =>
               /\ result.thread_id = result.message_id
               /\ result.message_id # <<>>
               /\ IF HasIdentity(msg.message_id_header)
                  THEN IsStrippedOf(result.message_id, msg.message_id_header)
                  ELSE result.message_id = TimestampStr(clock)

\* A message with a Message-ID and no ancestor starts the thread of its id
C11_Witness ==
    /\ Resolved
    /\ ~Raises(msg)
    /\ ~result.is_reply
    /\ msg.message_id_header = <<"<", "m", ">">>
    /\ result.thread_id = <<"m">>

\* C12: when the resolution raises, extract_thread_info returns the
\* degraded dict: a synthesized message_id (whatever Message-ID the body
\* carries), thread_id null, is_reply false, references and participants
\* empty, subject_root the subject as it was handed in.
C12_DegradedResult ==
    (Resolved /\ Raises(msg)) =>
        /\ result.message_id = TimestampStr(clock)
        /\ result.message_id # <<>>
        /\ result.thread_id = NullStr
        /\ ~result.is_reply
        /\ result.references = <<>>
        /\ result.participants = {}
        /\ result.subject_root = msg.subject

\* A body that cannot be parsed under the subject "Re: Budget Review",
\* and a message without subject that carries a Message-ID
C12_Witness ==
    /\ Resolved
    /\ \/ ~msg.body_is_str /\ result.subject_root = ReBudgetReview
       \/ msg.subject = NullStr /\ HasIdentity(msg.message_id_header)
    /\ result.thread_id = NullStr
    /\ result.message_id = TimestampStr(clock)

---------------------------------------------------------------------------
(* link_email_thread *)

\* C13: a link_email_thread(r, o) call whose original o is stored with a
\* thread_id gives the stored reply r the thread_id of o, in_reply_to = o
\* and references = [o], and changes nothing else; a call whose original
\* is not stored, or has no thread_id, changes no row of any table.
C13_LinkReparents ==
    [][\A r \in KnownIds, o \in KnownIds :
          LinkEmailThread(r, o) =>
              IF o \in DOMAIN emails /\ Truthy(emails[o].thread_id)
              THEN /\ r \in DOMAIN emails =>
                         /\ emails'[r].thread_id = emails[o].thread_id
                         /\ emails'[r].thread_id = emails'[o].thread_id
                         /\ emails'[r].in_reply_to = o
                         /\ emails'[r].references = <<o>>
                   /\ DOMAIN emails' = DOMAIN emails
                   /\ \A id \in DOMAIN emails \ {r} : emails'[id] = emails[id]
                   /\ UNCHANGED <<threads, processed, calendar>>
              ELSE UNCHANGED storeVars]_vars

\* A message saved without thread_id that was linked to another message
C13_Witness ==
    \E r \in DOMAIN emails, o \in DOMAIN emails :
        /\ r # o
        /\ emails[r].raw_data.thread_id = Null
        /\ emails[r].thread_id = emails[o].thread_id
        /\ emails[r].in_reply_to = o
        /\ emails[r].references = <<o>>

---------------------------------------------------------------------------
(* The thread queries *)

\* The largest received_date among the messages whose thread_id is t
LatestDateRank(t) ==
    LET ranks == {DateRank(emails[id].received_date) : id \in EmailsOfThread(t)}
    IN CHOOSE r \in ranks : \A q \in ranks : q <= r

\* The threads that have at least one message
ThreadsWithMessages ==
    {t \in {emails[id].thread_id : id \in DOMAIN emails} : Truthy(t)}

\* C14: after any save_email and link_email_thread calls,
\* get_thread_summary(t) returns None exactly when no stored message has
\* thread_id t (a thread that lost its only message to a link, a thread id
\* never stored); otherwise it returns the summary of t whose email_count
\* is the number of messages with thread_id t.
C14_SummaryIffMessages ==
    answer.op = "get_thread_summary" =>
        IF EmailsOfThread(answer.arg) = {}
        THEN answer.value = NoSummary
        ELSE /\ answer.value # NoSummary
             /\ answer.value.thread_id = answer.arg
             /\ answer.value.email_count = Cardinality(EmailsOfThread(answer.arg))

\* None for a thread whose row exists and whose only message was linked
\* into another thread
C14_Witness ==
    /\ answer.op = "get_thread_summary"
    /\ answer.arg \in DOMAIN threads
    /\ answer.value = NoSummary
    /\ \E id \in DOMAIN emails :
           /\ emails[id].raw_data.thread_id = answer.arg
           /\ emails[id].thread_id # answer.arg

\* C15: get_thread_history(t) returns the messages whose thread_id is t, all
\* of them and no other, in ascending received_date order, each with the
\* summary, intent and ai_reply of its processed_emails row (null when it
\* has none), and as thread_info what get_thread_summary(t) returns.
C15_HistoryOfThread ==
    answer.op = "get_thread_history" =>
        LET t == answer.arg
            v == answer.value.emails
        IN /\ {v[i].id : i \in DOMAIN v} = EmailsOfThread(t)
           /\ \A i \in DOMAIN v :
                  /\ v[i].thread_id = t
                  /\ v[i].received_date = emails[v[i].id].received_date
                  /\ IF v[i].id \in DOMAIN processed
                     THEN /\ v[i].summary = processed[v[i].id].summary
                          /\ v[i].intent = processed[v[i].id].intent
                          /\ v[i].ai_reply = processed[v[i].id].ai_reply
                     ELSE /\ v[i].summary = Null
                          /\ v[i].intent = Null
                          /\ v[i].ai_reply = Null
           /\ \A i, j \in DOMAIN v :
                  i < j => DateRank(v[i].received_date) <= DateRank(v[j].received_date)
           /\ answer.value.thread_info \in ThreadSummaries(t)

\* A thread of two messages of different dates, one of them annotated
C15_Witness ==
    /\ answer.op = "get_thread_history"
    /\ Len(answer.value.emails) = 2
    /\ answer.value.emails[1].received_date # answer.value.emails[2].received_date
    /\ \E i, j \in 1..2 :
           /\ answer.value.emails[i].summary # Null
           /\ answer.value.emails[j].summary = Null

\* q occurs in text, whatever the case of the letters
Contains(text, q) ==
    /\ text # Null
    /\ \E i \in 1..(Len(Chars(text)) + 1) :
          /\ i + Len(Chars(q)) - 1 <= Len(Chars(text))
          /\ Lower(SubSeq(Chars(text), i, i + Len(Chars(q)) - 1)) = Lower(Chars(q))

\* The subject, the body or the annotation summary of message id contains q
MessageContains(id, q) ==
    \/ Contains(emails[id].subject, q)
    \/ Contains(emails[id].body, q)
    \/ id \in DOMAIN processed /\ Contains(processed[id].summary, q)

ThreadsContaining(q) ==
    {t \in ThreadsWithMessages : \E id \in EmailsOfThread(t) : MessageContains(id, q)}

\* The threads search_threads(q) returned are those with a message that
\* contains q, each once
SearchFindsThreads ==
    answer.op = "search_threads" =>
        /\ {answer.value[i].thread_id : i \in DOMAIN answer.value}
              = ThreadsContaining(answer.arg)
        /\ Len(answer.value) = Cardinality(ThreadsContaining(answer.arg))

\* C16: search_threads(q) returns the threads that have a message whose
\* subject, body or annotation summary contains q, each once and no other,
\* in descending order of the date of the thread's most recent message.
C16_SearchThreads ==
    answer.op = "search_threads" =>
        /\ SearchFindsThreads
        /\ \A i, j \in DOMAIN answer.value :
               i < j => LatestDateRank(answer.value[i].thread_id)
                          >= LatestDateRank(answer.value[j].thread_id)

\* C17: get_recent_threads(limit) returns at most limit threads, each once
\* and each with a message; no thread left out has a later latest message
\* than a listed one (all are listed when limit allows it); the list is in
\* descending order of the latest message date.
C17_RecentThreads ==
    answer.op = "get_recent_threads" =>
        LET v == answer.value
            listed == {v[i].thread_id : i \in DOMAIN v}
        IN /\ Len(v) <= answer.arg
           /\ Len(v) = Min(answer.arg, Cardinality(ThreadsWithMessages))
           /\ Cardinality(listed) = Len(v)
           /\ listed \subseteq ThreadsWithMessages
           /\ \A t \in listed, u \in ThreadsWithMessages \ listed :
                  LatestDateRank(t) >= LatestDateRank(u)
           /\ \A i \in DOMAIN v :
                  DateRank(v[i].last_activity) = LatestDateRank(v[i].thread_id)
           /\ \A i, j \in DOMAIN v :
                  i < j => LatestDateRank(v[i].thread_id) >= LatestDateRank(v[j].thread_id)

\* Two threads with different latest dates, the later one alone returned
C17_Witness ==
    /\ answer.op = "get_recent_threads"
    /\ answer.arg = 1
    /\ Len(answer.value) = 1
    /\ \E u \in ThreadsWithMessages :
           LatestDateRank(u) < LatestDateRank(answer.value[1].thread_id)

---------------------------------------------------------------------------
(* validate_cleaned_content *)

\* The text with its leading and trailing whitespace removed
Trimmed(text) == Strip(text, Whitespace)

OnlyNonWord(text) == \A i \in DOMAIN text : text[i] \in Whitespace \/ text[i] \notin WordChars
OnlyDigits(text) == \A i \in DOMAIN text : text[i] \in Digits \/ text[i] \in Whitespace

\* C20: validate_cleaned_content returns false for a text that is empty,
\* has fewer than 10 characters after trimming, is made of whitespace and
\* non-word characters only, or of digits and whitespace only; it returns
\* true for every other text.
C20_Validate ==
    valid # NotValidated =>
        valid[1] = ~(\/ content = NullStr
                     \/ content = <<>>
                     \/ Len(Trimmed(content)) < 10
                     \/ OnlyNonWord(content)
                     \/ OnlyDigits(content))

\* Ten digits and more, with whitespace around them or not, were rejected
C20_Witness ==
    /\ valid = <<FALSE>>
    /\ content # NullStr
    /\ Len(Trimmed(content)) >= 10
    /\ OnlyDigits(content)
    /\ ~OnlyNonWord(content)

---------------------------------------------------------------------------
(* process_email: the fallback to the raw body *)

\* The cleaned text of message m was not valid and its raw body is a
\* non-empty text
Rejected(m) ==
    /\ m.body_is_str
    /\ RawBody(m) # <<>>
    /\ ~ValidateCleanedContent(CleanText(m.payload))

\* text ends with suffix, something of the kind "[REPLY to thread: ...] "
\* coming before it
MarkedCopy(text, suffix) ==
    /\ Len(text) > Len(suffix)
    /\ SubSeq(text, Len(text) - Len(suffix) + 1, Len(text)) = suffix
    /\ StartsWith(text, ReplyMarker)
    /\ SubSeq(text, Len(text) - Len(suffix) - 1, Len(text) - Len(suffix)) = MarkerEnd

\* C18 as stated: whenever the cleaned text of a message with a non-empty
\* raw body is rejected, cleaned_summary is exactly the raw body, for a
\* reply as for a new-thread message.
C18_FallbackIsRawBody ==
    \A i \in DOMAIN cleaned_emails :
        Rejected(batch[i]) => cleaned_emails[i].cleaned_summary = cleaned_emails[i].body

\* C18: whenever the cleaned text of a message with a non-empty raw body is
\* rejected, cleaned_summary is the raw body for a new-thread message and
\* the raw body preceded by the reply markers for a reply; it is never
\* empty.
C18_FallbackKeepsRawBody ==
    \A i \in DOMAIN cleaned_emails :
        Rejected(batch[i]) =>
            LET r == cleaned_emails[i] IN
              /\ ~r.is_reply => r.cleaned_summary = r.body
              /\ r.is_reply => MarkedCopy(r.cleaned_summary, r.body)
              /\ r.cleaned_summary # <<>>

\* A new-thread message whose cleaned text is empty and a reply whose
\* cleaned text is too short have been processed
C18_Witness ==
    /\ cleaned_emails # <<>>
    /\ Rejected(batch[1])
    /\ CleanText(batch[1].payload) = <<>>
    /\ ~cleaned_emails[1].is_reply
    /\ cleaned_emails[1].cleaned_summary = batch[1].payload

---------------------------------------------------------------------------
(* clean_emails and process_emails: a batch with bad messages *)

\* Message m fails in resolution (extract_thread_info raises) or in
\* decoding and normalization (message_from_string raises, or the cleaned
\* text is not valid)
Fails(m) ==
    \/ Raises(m)
    \/ ~m.body_is_str
    \/ ~ValidateCleanedContent(CleanText(m.payload))

\* C19: a batch never halts on a bad message: whichever messages of a batch
\* of N fail, clean_emails and process_emails return N results in the order
\* of the input, and the result for each message is the one process_email
\* gives for that message alone.
C19_BatchNeverHalts ==
    /\ Len(cleaned_emails) = pos
    /\ \A i \in DOMAIN cleaned_emails :
           cleaned_emails[i] = ProcessEmail(batch[i], clock)
    /\ DOMAIN mapped \subseteq DOMAIN batch
    /\ \A i \in DOMAIN mapped : mapped[i] = ProcessEmail(batch[i], clock)

\* Both functions have returned for a batch of a message whose body is not
\* a str followed by one that does not fail
C19_Witness ==
    /\ Len(batch) = 2
    /\ pos = Len(batch)
    /\ DOMAIN mapped = DOMAIN batch
    /\ ~batch[1].body_is_str
    /\ ~Fails(batch[2])
    /\ cleaned_emails[2].cleaned_summary = HelloWorld
    /\ mapped[2].cleaned_summary = HelloWorld

---------------------------------------------------------------------------
(* clean_text: what it returns *)

\* piece occurs in s
Occurs(piece, s) ==
    \E i \in 1..(Len(s) - Len(piece) + 1) : SubSeq(s, i, i + Len(piece) - 1) = piece

\* Where the lines of s begin
LineStarts(s) == {i \in DOMAIN s : i = 1 \/ s[i - 1] = "\n"}

\* The line of s that begins at s[i], without its line break
LineFrom(s, i) ==
    SubSeq(s, i, Smallest({j \in i..(Len(s) + 1) : j = Len(s) + 1 \/ s[j] = "\n"}) - 1)

\* The lines of s that begin with '>' or '|'
QuotedLines(s) == {LineFrom(s, i) : i \in {k \in LineStarts(s) : s[k] \in {">", "|"}}}

NoOuterWhitespace(s) ==
    s = <<>> \/ (s[1] \notin Whitespace /\ s[Len(s)] \notin Whitespace)

NoWhitespaceRun(s) ==
    \A i \in 1..(Len(s) - 1) : ~(s[i] \in Whitespace /\ s[i + 1] \in Whitespace)

\* C21: what clean_text returns has no leading or trailing whitespace, no
\* run of more than one whitespace character, and none of the lines of the
\* content that began with '>' or '|'.
C21_CleanTextOutput ==
    Len(returned) >= 1 =>
        /\ NoOuterWhitespace(returned[1])
        /\ NoWhitespaceRun(returned[1])
        /\ \A line \in QuotedLines(content) : ~Occurs(line, returned[1])

\* C22: clean_text called with the text it returned returns that text.
C22_CleanTextIdempotent ==
    Len(returned) = 2 => returned[2] = returned[1]

\* The order of the pattern groups the description gives; the whitespace is
\* collapsed after the last of them
StatedGroups == <<"headers", "forwarded", "replies", "signatures", "quoted", "attachments">>

\* The patterns anchored on a line break
NewlineAnchored == {"headers", "quoted"}

\* The groups the running call has applied
GroupsApplied == SelectSeq(applied, LAMBDA name : name # "return")

\* C26: the groups are applied in the order headers, forwarded, replies,
\* signatures, quoted, attachments, and the whitespace is collapsed after
\* all of them: a group anchored on a line break is never applied after
\* the whitespace was collapsed.
C26_GroupsInStatedOrder ==
    /\ Len(GroupsApplied) <= Len(StatedGroups)
    /\ GroupsApplied = SubSeq(StatedGroups, 1, Len(GroupsApplied))
    /\ \A i \in DOMAIN GroupsApplied :
          GroupsApplied[i] \in NewlineAnchored =>
              \A j \in 1..(i - 1) : GroupsApplied[j] # "whitespace"

---------------------------------------------------------------------------
(* _clean_subject *)

\* The prefixes the description names
StatedPrefixes ==
    { <<"r", "e", ":">>, <<"f", "w", ":">>, <<"f", "w", "d", ":">>,
      <<"a", "w", ":">>, <<"t", "r", ":">>, <<"r", ":">> }

\* A returned subject is lower-cased and trimmed and starts with no prefix
SubjectRootClean(root) ==
    /\ \A i \in DOMAIN root : root[i] \notin Range(UpperCase)
    /\ NoOuterWhitespace(root)
    /\ \A prefix \in StatedPrefixes : ~StartsWith(root, prefix)

\* C23: _clean_subject returns for every subject; what it returns is
\* lower-cased and trimmed and starts with none of the prefixes re:, fw:,
\* fwd:, aw:, tr:, r:; called with what it returned, it returns the same.
C23_CleanSubjectTerminates ==
    /\ [](\A i \in DOMAIN roots : SubjectRootClean(roots[i]))
    /\ [](Len(roots) = 2 => roots[2] = roots[1])
    /\ <>(Len(roots) = 2)

\* "Re: Fwd: RE: x" was cleaned in more than one turn of the loop, and
\* cleaned again
C23_Witness ==
    /\ msg.subject = ReFwdREx
    /\ roots = <<<<"x">>, <<"x">>>>

---------------------------------------------------------------------------
(* process_email: the parts of a multipart body *)

AttachmentWord == <<"a", "t", "t", "a", "c", "h", "m", "e", "n", "t">>

\* The part is marked with an attachment disposition
IsAttachment(part) == StartsWith(Lower(part.disposition), AttachmentWord)

\* What the textual parts that are not attachments give, in the order of
\* the parts, a part that gives nothing left out
StatedFragments(parts) ==
    LET textual == SelectSeq(parts, LAMBDA part :
                       part.maintype = TextType /\ ~IsAttachment(part))
        texts == [i \in DOMAIN textual |-> CleanText(textual[i].payload)]
    IN SelectSeq(texts, LAMBDA t : t # <<>>)

\* C24: the fragments process_email combines for a multipart body are what
\* its textual parts without attachment disposition give, in the order of
\* the parts; other parts and parts that give nothing add no fragment.
C24_MultipartFragments ==
    (pos > 0 /\ IsMultipart(batch[pos])) =>
        cleaned_parts = StatedFragments(batch[pos].parts)

---------------------------------------------------------------------------
(* EmailDatabase: ids and stored emails *)

\* The emails the file holds for a reader whose read does not raise
StoredEmails == LoadJson(emails_file, FALSE)

\* C25: the id a save_email call returns is the id of no message stored
\* before, so that the ids returned are pairwise distinct and no message
\* takes the place of another.
C25_ReturnedIdsDistinct ==
    \A i, j \in DOMAIN file_log : i # j => file_log[i].id # file_log[j].id

\* C29: after every save_email call every email stored before is still
\* found by get_email under the id returned for it, and the number of
\* stored emails is the number of calls made.
C29_NoEmailLost ==
    /\ Len(StoredEmails) = Len(file_log)
    /\ \A i \in DOMAIN file_log :
          FirstWithId(StoredEmails, file_log[i].id) = <<file_log[i]>>

---------------------------------------------------------------------------
(* save_email of a message without thread_id *)

\* The message was saved with thread_id None, as a degraded resolution gives it
SavedDegraded(id) == id \in DOMAIN emails /\ ~Truthy(emails[id].thread_id)

\* What a caller can hand to a thread query for a message: a thread id or
\* the id of a stored message (a parameter None equals no thread_id in SQL)
ThreadQueryArgs == ThreadIds \cup DOMAIN emails

\* get_thread_summary(t) and get_thread_history(t) give the thread of the
\* one message id
OwnThread(id, t) == SummaryFound(t) /\ HistoryEmails(t) = {id}

\* C27: a message saved with thread_id None is reachable as its own
\* single-message thread through the thread queries.
C27_DegradedReachable ==
    \A id \in DOMAIN emails :
        SavedDegraded(id) => \E t \in ThreadQueryArgs : OwnThread(id, t)

---------------------------------------------------------------------------
(* get_thread_history: a message with several calendar events *)

\* C28: get_thread_history(thread_id) lists each message of the thread
\* once, whatever annotation and calendar events were written for it.
C28_HistoryListsOnce ==
    answer.op = "get_thread_history" =>
        /\ {answer.value.emails[i].id : i \in DOMAIN answer.value.emails}
               = HistoryEmails(answer.arg)
        /\ \A i, j \in DOMAIN answer.value.emails :
              i # j => answer.value.emails[i].id # answer.value.emails[j].id

---------------------------------------------------------------------------
(* GmailFetcher: the connection between two turns of the polling loop *)

\* C30: whenever fetch_emails has returned the fetcher is disconnected, and
\* no fetch_emails selects the inbox on a connection that was logged out.
C30_DisconnectedAfterFetch ==
    cycles > 0 => (~connected /\ selected_on # "LOGOUT")

====
